---- MODULE Spec2Model ----
(***************************************************************************)
(* SkyPath-RL: the tabular Q-learning relay optimizer (elements/rl_agent), *)
(* the fleet controller (elements/drone_controller), the signal metrics    *)
(* (configFiles/terrain_moderator) and the simulation loop (main.py).      *)
(*                                                                         *)
(* Numbers.  Positions, powers and heights are integers.  Python floats    *)
(* that carry fractions are fixed-point integers over a common             *)
(* denominator, chosen so that every product the code forms within the     *)
(* bounds is exact: Q-values and rewards over QDen, epsilon over EpsDen.   *)
(***************************************************************************)
EXTENDS Integers, Sequences, FiniteSets, TLC

VARIABLES
    \* configFiles/configM.py: the terrain drawn once by configT
    CENTERS, BASE_RADIUS, LAYERS,
    \* one DroneRLAgent and the drone it moves (cf.drones[i])
    position, q_table, epsilon, step_count, episode_count, learning_history,
    epsilon_start, epsilon_min, epsilon_decay,
    \* the policy file of that agent, and the agent as it was when saved
    policy_file, saved,
    \* main.py: the loop's counters; DroneController: the agents' counters
    \* and epsilon, the rewards per drone; the policies last saved
    frame_counter, episode_frame, total_episodes, training_flags,
    episode_rewards, cumulative_rewards, agents, saved_policies,
    \* cf.drones, the tower heights, and the metrics main.py gathers per drone
    drones, towers, per_drone_metrics,
    \* elements/terrain.py: the contours' samples near the sight line, the
    \* module's globals and cf.tolerance, cf.los; terrain_moderator's hills_data
    contour, inter, inter_points, visited, heights, done, los, tolerance,
    hills_data,
    \* a call of the loss functions: the end points and the frequency, and
    \* the results of calculate_segment_loss and calculate_multihop_relay_loss
    loss_tx, loss_rx, loss_freq, loss_result, relay_result,
    \* one call of a method of the agent on its own: the arguments, the value
    \* returned
    call, returned,
    \* the last call made: its arguments and results
    last

terrainVars == <<CENTERS, BASE_RADIUS, LAYERS>>
agentVars == <<position, q_table, epsilon, step_count, episode_count,
               learning_history, epsilon_start, epsilon_min, epsilon_decay>>
fileVars == <<policy_file, saved>>
loopVars == <<frame_counter, episode_frame, total_episodes, training_flags,
              episode_rewards, cumulative_rewards, agents, saved_policies>>
metricVars == <<drones, towers, per_drone_metrics>>
fleetVars == <<loopVars, metricVars>>
drawVars == <<contour, inter, inter_points, visited, heights, done, los, tolerance,
              hills_data>>
lossVars == <<loss_tx, loss_rx, loss_freq, loss_result, relay_result>>
callVars == <<call, returned>>
vars == <<terrainVars, drawVars, lossVars, callVars, agentVars, fileVars, fleetVars,
          last>>

----------------------------------------------------------------------------
(* Bounds of the model *)

\* apply_action calls in one run of SpecApply
MaxMoves == 2
\* step calls on the agent in one run of SpecAgent
MaxSteps == 2
\* end_episode calls on the agent in one run
MaxEpisodes == 2

----------------------------------------------------------------------------
(* Program constants *)

\* configM.py:4 takes W, H from disp_settings(); the corner hill of
\* terrain_config.py:5 and the sight line of terrain.py:16 fix them at 800 x 600
W == 800
H == 600
\* rl_agent.py:171  getattr(cf, 'scale', 10)
scale == 10
\* rl_agent.py:132  apply_action(..., step_size=10, height_step=5)
step_size == 10
height_step == 5
\* main.py:46-47  DroneController(..., grid_size=15, height_levels=5)
grid_size == 15
height_levels == 5
\* main.py:40-41
drone_bounds == <<50, W - 50, 50, H - 50>>
drone_height_bounds == <<10, 200>>

\* rl_agent.py:40-51  self.actions, ids 0..9
actions ==
    << <<0, -1, 0>>, <<1, -1, 0>>, <<1, 0, 0>>, <<1, 1, 0>>, <<0, 1, 0>>,
       <<-1, 1, 0>>, <<-1, 0, 0>>, <<-1, -1, 0>>, <<0, 0, 1>>, <<0, 0, -1>> >>
ActionIds == 0 .. (Len(actions) - 1)

\* fixed point: 1.0 as a Q-value or reward, and 1.0 as an epsilon
QDen == 20 * 200 ^ (MaxSteps - 1)
EpsDen == 20 * 200 ^ MaxEpisodes

----------------------------------------------------------------------------
(* Python built-ins *)

Max2(a, b) == IF a >= b THEN a ELSE b
Min2(a, b) == IF a <= b THEN a ELSE b
\* int(a / b) for b # 0: truncation toward zero
TruncDiv(a, b) ==
    IF b < 0 THEN (IF a > 0 THEN -(a \div (-b)) ELSE (-a) \div (-b))
    ELSE IF a >= 0 THEN a \div b ELSE -((-a) \div b)

----------------------------------------------------------------------------
(* DroneRLAgent.apply_action *)

hill_height(h) == LAYERS[h] * scale

\* rl_agent.py:166-181: the loop over the hills, from hill h on; TRUE when
\* the horizontal move to (new_x, new_y) is blocked
RECURSIVE HillBlocks(_, _, _, _, _, _)
HillBlocks(h, max_hills, new_x, new_y, new_z, moving_horizontally) ==
    IF h > max_hills THEN FALSE
    ELSE LET cx == CENTERS[h][1]
             cy == CENTERS[h][2]
             radius == BASE_RADIUS[h]
             \* math.hypot(new_x - cx, new_y - cy) <= radius
             inside == (new_x - cx) * (new_x - cx) + (new_y - cy) * (new_y - cy)
                           <= radius * radius
         IN IF inside /\ moving_horizontally /\ new_z <= hill_height(h)
            THEN TRUE
            ELSE HillBlocks(h + 1, max_hills, new_x, new_y, new_z, moving_horizontally)

\* A horizontal move into a hill is not reverted at all
apply_action_no_revert(pos, action_idx, bounds, height_bounds) ==
    LET d == actions[action_idx + 1]
    IN << Max2(bounds[1], Min2(pos[1] + d[1] * step_size, bounds[2])),
          Max2(bounds[3], Min2(pos[2] + d[2] * step_size, bounds[4])),
          Max2(height_bounds[1], Min2(pos[3] + d[3] * height_step, height_bounds[2])) >>

apply_action(pos, action_idx, bounds, height_bounds) ==
    LET d == actions[action_idx + 1]
        new_x == Max2(bounds[1], Min2(pos[1] + d[1] * step_size, bounds[2]))
        new_y == Max2(bounds[3], Min2(pos[2] + d[2] * step_size, bounds[4]))
        new_z == Max2(height_bounds[1],
                      Min2(pos[3] + d[3] * height_step, height_bounds[2]))
        moving_horizontally == d[1] # 0 \/ d[2] # 0
        max_hills == Min2(Len(CENTERS), Min2(Len(BASE_RADIUS), Len(LAYERS)))
    IN IF HillBlocks(1, max_hills, new_x, new_y, new_z, moving_horizontally)
       THEN <<pos[1], pos[2], new_z>>
       ELSE <<new_x, new_y, new_z>>

----------------------------------------------------------------------------
(* The terrain: one outcome of configT(800, 600) with hills = 7.  The two   *)
(* corner hills are fixed by the code; the others keep the separation       *)
(* r1 + r2 + 10; an eighth centre was placed by the sampling loop, which    *)
(* runs on to hills + 5 centres, and has no layer count.                    *)

TerrainCenters ==
    << <<0, 0>>, <<800, 600>>, <<400, 300>>, <<200, 450>>, <<600, 150>>,
       <<150, 250>>, <<650, 400>>, <<300, 100>> >>
TerrainRadii == <<100, 100, 50, 40, 40, 30, 30, 30>>
\* terrain_config.py:30: LAYERS[h] is drawn from int(r/10) .. int(r/5)
TerrainLayers ==
    { <<10, l2, l3, 4, 4, 3, 3>> : l2 \in {10, 20}, l3 \in {5, 10} }

\* terrain.py:9-15 before the first frame; no contour is read
DrawUnused ==
    /\ contour = <<>>
    /\ inter = {}
    /\ inter_points = <<>>
    /\ visited = <<>>
    /\ heights = <<>>
    /\ done = FALSE
    /\ los = FALSE
    /\ tolerance = 0
    /\ hills_data = <<>>

\* no call of the loss functions is followed
LossUnused ==
    /\ loss_tx = <<>>
    /\ loss_rx = <<>>
    /\ loss_freq = 0
    /\ loss_result = <<>>
    /\ relay_result = <<>>

\* no method is called on its own
CallUnused ==
    /\ call = <<>>
    /\ returned = <<>>

InitTerrain ==
    /\ CENTERS = TerrainCenters
    /\ BASE_RADIUS = TerrainRadii
    /\ LAYERS \in TerrainLayers
    /\ DrawUnused
    /\ LossUnused
    /\ CallUnused

\* Where a drone can be when apply_action is called: inside the bounds, on
\* their corners, and outside them (mainE.py:38-48 moves a drone by the
\* keyboard without clamping)
StartPositions ==
    { <<340, 300, 95>>, <<750, 550, 200>>, <<50, 50, 10>>, <<40, 40, 5>>,
      <<260, 100, 10>>, <<340, 300, 55>> }

AgentUnused ==
    /\ q_table = <<>>
    /\ epsilon = 0
    /\ step_count = 0
    /\ episode_count = 0
    /\ learning_history = <<>>
    /\ epsilon_start = 0
    /\ epsilon_min = 0
    /\ epsilon_decay = 0

FleetUnused ==
    /\ frame_counter = 0
    /\ episode_frame = 0
    /\ total_episodes = 0
    /\ training_flags = <<>>
    /\ episode_rewards = <<>>
    /\ cumulative_rewards = <<>>
    /\ agents = <<>>
    /\ saved_policies = <<>>
    /\ drones = <<>>
    /\ towers = <<>>
    /\ per_drone_metrics = <<>>

FileUnused ==
    /\ policy_file = <<>>
    /\ saved = <<>>

----------------------------------------------------------------------------
(* SpecApply: apply_action as a function of the position, the action and    *)
(* the terrain                                                              *)

InitApply ==
    /\ InitTerrain
    /\ position \in StartPositions
    /\ AgentUnused
    /\ FileUnused
    /\ FleetUnused
    /\ last = [op |-> "init", position |-> position, action |-> 0, calls |-> 0]

ApplyAction(a) ==
    /\ last.calls < MaxMoves
    /\ position' = apply_action(position, a, drone_bounds, drone_height_bounds)
    /\ last' = [op |-> "apply_action", position |-> position, action |-> a,
                calls |-> last.calls + 1]
    /\ UNCHANGED <<terrainVars, callVars, drawVars, lossVars, fleetVars, q_table, epsilon, step_count, episode_count,
                   learning_history, epsilon_start, epsilon_min, epsilon_decay,
                   fileVars>>

NextApply == \E a \in ActionIds : ApplyAction(a)

SpecApply == InitApply /\ [][NextApply]_vars

\* the clamped destination of action a from position p (rl_agent.py:145-155)
Target(p, a) ==
    << Max2(drone_bounds[1], Min2(p[1] + actions[a + 1][1] * step_size, drone_bounds[2])),
       Max2(drone_bounds[3], Min2(p[2] + actions[a + 1][2] * step_size, drone_bounds[4])),
       Max2(drone_height_bounds[1],
            Min2(p[3] + actions[a + 1][3] * height_step, drone_height_bounds[2])) >>

Horizontal(a) == actions[a + 1][1] # 0 \/ actions[a + 1][2] # 0

\* (x, y) lies within the base radius of hill h
InFootprint(x, y, h) ==
    (x - CENTERS[h][1]) * (x - CENTERS[h][1]) + (y - CENTERS[h][2]) * (y - CENTERS[h][2])
        <= BASE_RADIUS[h] * BASE_RADIUS[h]

\* the destination t lies in the footprint of a hill at least as high as t
TargetInHill(t) ==
    \E h \in DOMAIN LAYERS : InFootprint(t[1], t[2], h) /\ LAYERS[h] * scale >= t[3]

\* C1: a horizontal action whose clamped destination lies in the footprint of
\* a hill at least as high as the resulting altitude returns the pre-action
\* x and y and the clamped new z; climb and descend return the clamped
\* old + delta position whatever the hills
C1_TerrainRule ==
    last.op = "apply_action" =>
        LET p == last.position
            a == last.action
            t == Target(p, a)
        IN /\ (Horizontal(a) /\ TargetInHill(t)) => position = <<p[1], p[2], t[3]>>
           /\ a \in {8, 9} => position = t

\* a horizontal move was rejected: the drone kept x, y although the
\* destination differed, and its altitude was clamped
C1_Witness ==
    /\ last.op = "apply_action"
    /\ Horizontal(last.action)
    /\ TargetInHill(Target(last.position, last.action))
    /\ <<Target(last.position, last.action)[1], Target(last.position, last.action)[2]>>
          # <<last.position[1], last.position[2]>>
    /\ position = <<last.position[1], last.position[2],
                    Target(last.position, last.action)[3]>>

\* C21: apply_action returns a position inside the bounds on every axis,
\* for every position it is called with, inside or outside the bounds, and
\* for every action, whether the terrain rule rejects the move or not.
C21_InsideBounds ==
    last.op = "apply_action" =>
        /\ position[1] >= drone_bounds[1] /\ position[1] <= drone_bounds[2]
        /\ position[2] >= drone_bounds[3] /\ position[2] <= drone_bounds[4]
        /\ position[3] >= drone_height_bounds[1]
        /\ position[3] <= drone_height_bounds[2]

\* C29: an apply_action call on a drone that is not within a hill's base
\* radius at an altitude <= that hill's height never leaves it within a
\* hill's base radius at an altitude <= that hill's height.
C29_NeverInsideHill ==
    [][~TargetInHill(position) => ~TargetInHill(position')]_vars

----------------------------------------------------------------------------
(* DroneRLAgent: state discretization, action selection, reward, Q update   *)

\* rl_agent.py:11  learning_rate=0.1, discount_factor=0.95, as fractions
learning_rate == <<1, 10>>
discount_factor == <<19, 20>>

\* The clamp to the grid is missing
discretize_position_unclamped(pos, bounds, height_bounds) ==
    << TruncDiv((pos[1] - bounds[1]) * (grid_size - 1), bounds[2] - bounds[1]),
       TruncDiv((pos[2] - bounds[3]) * (grid_size - 1), bounds[4] - bounds[3]),
       TruncDiv((pos[3] - height_bounds[1]) * (height_levels - 1),
                height_bounds[2] - height_bounds[1]) >>

\* Only the upper clamp is applied
discretize_position_upper_clamp(pos, bounds, height_bounds) ==
    << Min2(TruncDiv((pos[1] - bounds[1]) * (grid_size - 1), bounds[2] - bounds[1]),
            grid_size - 1),
       Min2(TruncDiv((pos[2] - bounds[3]) * (grid_size - 1), bounds[4] - bounds[3]),
            grid_size - 1),
       Min2(TruncDiv((pos[3] - height_bounds[1]) * (height_levels - 1),
                     height_bounds[2] - height_bounds[1]),
            height_levels - 1) >>

discretize_position(pos, bounds, height_bounds) ==
    LET grid_x == TruncDiv((pos[1] - bounds[1]) * (grid_size - 1), bounds[2] - bounds[1])
        grid_y == TruncDiv((pos[2] - bounds[3]) * (grid_size - 1), bounds[4] - bounds[3])
        grid_z == TruncDiv((pos[3] - height_bounds[1]) * (height_levels - 1),
                           height_bounds[2] - height_bounds[1])
    IN << Max2(0, Min2(grid_x, grid_size - 1)),
          Max2(0, Min2(grid_y, grid_size - 1)),
          Max2(0, Min2(grid_z, height_levels - 1)) >>

\* 1.0 as a coordinate returned by continuous_from_grid: the quotients
\* grid_x / (grid_size - 1) and grid_z / (height_levels - 1) are exact in it
GridDen == (grid_size - 1) * (height_levels - 1)

\* The altitude is divided by grid_size - 1 as well
continuous_from_grid_one_divisor(grid_pos, bounds, height_bounds) ==
    << bounds[1] * GridDen + grid_pos[1] * (height_levels - 1) * (bounds[2] - bounds[1]),
       bounds[3] * GridDen + grid_pos[2] * (height_levels - 1) * (bounds[4] - bounds[3]),
       height_bounds[1] * GridDen
          + grid_pos[3] * (height_levels - 1) * (height_bounds[2] - height_bounds[1]) >>

\* continuous_from_grid: (x, y, z) in units of 1/GridDen
continuous_from_grid(grid_pos, bounds, height_bounds) ==
    << bounds[1] * GridDen + grid_pos[1] * (height_levels - 1) * (bounds[2] - bounds[1]),
       bounds[3] * GridDen + grid_pos[2] * (height_levels - 1) * (bounds[4] - bounds[3]),
       height_bounds[1] * GridDen
          + grid_pos[3] * (grid_size - 1) * (height_bounds[2] - height_bounds[1]) >>

\* {i: 0.0 for i in range(10)}
NewEntry == [i \in 0 .. 9 |-> 0]

\* if state not in self.q_table: self.q_table[state] = {i: 0.0 ...}
WithState(q, state) == IF state \in DOMAIN q THEN q ELSE q @@ (state :> NewEntry)

\* max(q_values.values())
MaxValue(q_values) ==
    CHOOSE m \in {q_values[a] : a \in DOMAIN q_values} :
        \A a \in DOMAIN q_values : q_values[a] <= m

\* select_action on a 3-tuple state, after the state's entry exists: the
\* values it can return.  np.random.randint returns a Python int,
\* np.random.choice an element of a numpy array, a numpy.int64.
\* np.random.random() is in [0, 1): the first branch can be taken when
\* epsilon > 0, the second when epsilon < 1.
select_action(q, eps, state, training) ==
    LET q_values == q[state]
        max_q == MaxValue(q_values)
        best_actions == {a \in DOMAIN q_values : q_values[a] = max_q}
    IN {[action |-> a, type |-> "int", branch |-> "explore"] :
            a \in IF training /\ eps > 0 THEN ActionIds ELSE {}}
       \cup
       {[action |-> a, type |-> "numpy.int64", branch |-> "exploit"] :
            a \in IF ~training \/ eps < EpsDen THEN best_actions ELSE {}}

(* Python floats and None, as calculate_reward tests them *)
Num(n) == [k |-> "num", v |-> n]
None == [k |-> "None", v |-> 0]
NaN == [k |-> "nan", v |-> 0]
Inf(sign) == [k |-> "inf", v |-> sign]
\* x is None or math.isnan(x) or math.isinf(x)
NotFinite(x) == x.k \in {"None", "nan", "inf"}
\* a < b on floats
FloatLess(a, b) ==
    CASE a.k = "nan" \/ b.k = "nan" -> FALSE
      [] a.k = "inf" /\ b.k = "inf" -> a.v < b.v
      [] a.k = "inf" -> a.v < 0
      [] b.k = "inf" -> b.v > 0
      [] OTHER -> a.v < b.v

\* x is None or x <= 0
NotPositive(x) ==
    \/ x.k = "None"
    \/ x.k = "num" /\ x.v <= 0
    \/ x.k = "inf" /\ x.v < 0

\* The height bonus is given from 20 m on, not above 20 m
calculate_reward_height_inclusive(rx_power_dbm_direct, rx_power_dbm_relay, tx_distance_direct, tx_distance_relay, drone_height, avg_terrain_height) ==
    LET direct == IF NotFinite(rx_power_dbm_direct) THEN -80 ELSE rx_power_dbm_direct.v
        relay == IF NotFinite(rx_power_dbm_relay) THEN -80 ELSE rx_power_dbm_relay.v
        dist_direct == IF NotPositive(tx_distance_direct)
                       THEN Num(1000) ELSE tx_distance_direct
        dist_relay == IF NotPositive(tx_distance_relay)
                      THEN Num(1000) ELSE tx_distance_relay
        height == IF NotFinite(drone_height) THEN 50 ELSE drone_height.v
        terrain == IF NotFinite(avg_terrain_height) THEN 0 ELSE avg_terrain_height.v
        improvement == relay - direct
        height_above_terrain == height - terrain
    IN improvement * (QDen \div 2)
       + (IF relay > -50 THEN 10 * QDen ELSE IF relay < -80 THEN -5 * QDen ELSE 0)
       + (IF FloatLess(dist_relay, dist_direct) THEN 2 * QDen ELSE 0)
       + (IF height_above_terrain >= 20 THEN 3 * QDen
          ELSE IF height_above_terrain < 10 THEN -QDen ELSE 0)

\* calculate_reward, in units of 1/QDen; threshold_good = -50,
\* threshold_bad = -80
calculate_reward(rx_power_dbm_direct, rx_power_dbm_relay, tx_distance_direct, tx_distance_relay, drone_height, avg_terrain_height) ==
    LET direct == IF NotFinite(rx_power_dbm_direct) THEN -80 ELSE rx_power_dbm_direct.v
        relay == IF NotFinite(rx_power_dbm_relay) THEN -80 ELSE rx_power_dbm_relay.v
        dist_direct == IF NotPositive(tx_distance_direct)
                       THEN Num(1000) ELSE tx_distance_direct
        dist_relay == IF NotPositive(tx_distance_relay)
                      THEN Num(1000) ELSE tx_distance_relay
        height == IF NotFinite(drone_height) THEN 50 ELSE drone_height.v
        terrain == IF NotFinite(avg_terrain_height) THEN 0 ELSE avg_terrain_height.v
        improvement == relay - direct
        height_above_terrain == height - terrain
    IN improvement * (QDen \div 2)
       + (IF relay > -50 THEN 10 * QDen ELSE IF relay < -80 THEN -5 * QDen ELSE 0)
       + (IF FloatLess(dist_relay, dist_direct) THEN 2 * QDen ELSE 0)
       + (IF height_above_terrain > 20 THEN 3 * QDen
          ELSE IF height_above_terrain < 10 THEN -QDen ELSE 0)

\* The value of the next state is not discounted
update_q_table_undiscounted(q, state, action, reward, next_state) ==
    IF action.type # "int" THEN q
    ELSE LET q1 == WithState(q, state)
             current_q == q1[state][action.action]
             q2 == WithState(q1, next_state)
             max_next_q == MaxValue(q2[next_state])
             new_q == current_q
                      + ((reward + max_next_q - current_q) \div learning_rate[2])
                        * learning_rate[1]
         IN [q2 EXCEPT ![state][action.action] = new_q]

\* The guard on the action's type is missing
update_q_table_any_type(q, state, action, reward, next_state) ==
    LET q1 == WithState(q, state)
        current_q == q1[state][action.action]
        q2 == WithState(q1, next_state)
        max_next_q == MaxValue(q2[next_state])
        new_q == current_q
                 + ((reward + (max_next_q \div discount_factor[2]) * discount_factor[1]
                     - current_q) \div learning_rate[2]) * learning_rate[1]
    IN [q2 EXCEPT ![state][action.action] = new_q]

\* update_q_table: the Q-table after the call.  state is a tuple; action is
\* what select_action returned, and isinstance(action, int) is false of a
\* numpy.int64.  The fractions divide exactly within MaxSteps updates.
update_q_table(q, state, action, reward, next_state) ==
    IF action.type # "int" THEN q
    ELSE LET q1 == WithState(q, state)
             current_q == q1[state][action.action]
             q2 == WithState(q1, next_state)
             max_next_q == MaxValue(q2[next_state])
             new_q == current_q
                      + ((reward + (max_next_q \div discount_factor[2]) * discount_factor[1]
                          - current_q) \div learning_rate[2]) * learning_rate[1]
         IN [q2 EXCEPT ![state][action.action] = new_q]

\* The exploration floor is not applied
end_episode_no_floor(eps, eps_min, decay) == (eps \div decay[2]) * decay[1]

\* end_episode: max(self.epsilon_min, self.epsilon * self.epsilon_decay)
end_episode_epsilon(eps, eps_min, decay) ==
    Max2(eps_min, (eps \div decay[2]) * decay[1])

----------------------------------------------------------------------------
(* SpecAgent: one agent driven by step and end_episode calls                *)

\* signal_metrics and terrain_info as the controller passes them to step
\* the relay gains 10 dB over flat ground; the relay loses 25 dB over high
\* ground
RelayGains ==
    [rx_power_dbm_direct |-> Num(-80), rx_power_dbm_relay |-> Num(-70),
     tx_distance_direct |-> Num(900), tx_distance_relay |-> Num(1000),
     avg_height |-> Num(0)]
RelayLoses ==
    [rx_power_dbm_direct |-> Num(-60), rx_power_dbm_relay |-> Num(-85),
     tx_distance_direct |-> Num(900), tx_distance_relay |-> Num(1000),
     avg_height |-> Num(90)]
StepInputs == {RelayGains, RelayLoses}

\* DroneRLAgent(epsilon_start, epsilon_min, epsilon_decay) and the position
\* of the first step call: the defaults 0.3, 0.05, 0.995 from a position
\* beside hill 2; a decay of 0.25, which reaches the floor in two episodes,
\* from a position on the screen edge, outside the movement bounds
AgentConfigs ==
    { [epsilon_start |-> (3 * EpsDen) \div 10, epsilon_min |-> EpsDen \div 20,
       epsilon_decay |-> <<199, 200>>, position |-> <<340, 300, 95>>],
      [epsilon_start |-> (3 * EpsDen) \div 10, epsilon_min |-> EpsDen \div 20,
       epsilon_decay |-> <<50, 200>>, position |-> <<800, 300, 100>>] }

NoCall ==
    [op |-> "init", training |-> FALSE, state |-> <<0, 0, 0>>, action |-> 0,
     type |-> "int", branch |-> "none", next_state |-> <<0, 0, 0>>]

InitAgent ==
    /\ InitTerrain
    /\ LAYERS[2] = 10
    /\ LAYERS[3] = 10
    /\ q_table = <<>>
    /\ \E c \in AgentConfigs :
          /\ position = c.position
          /\ epsilon_start = c.epsilon_start
          /\ epsilon = c.epsilon_start
          /\ epsilon_min = c.epsilon_min
          /\ epsilon_decay = c.epsilon_decay
    /\ step_count = 0
    /\ episode_count = 0
    /\ learning_history = <<>>
    /\ FileUnused
    /\ FleetUnused
    /\ last = NoCall

\* DroneRLAgent.step once select_action has returned sel: the move, the
\* reward, the update when training, the step counter
StepBody(training, inp, sel) ==
    LET state == discretize_position(position, drone_bounds, drone_height_bounds)
        q1 == WithState(q_table, state)
        new_position == apply_action(position, sel.action, drone_bounds,
                                     drone_height_bounds)
        new_state == discretize_position(new_position, drone_bounds,
                                         drone_height_bounds)
        reward == calculate_reward(inp.rx_power_dbm_direct, inp.rx_power_dbm_relay,
                                   inp.tx_distance_direct, inp.tx_distance_relay,
                                   Num(new_position[3]), inp.avg_height)
    IN /\ q_table' = IF training
                     THEN update_q_table(q1, state, sel, reward, new_state)
                     ELSE q1
       /\ position' = new_position
       /\ step_count' = step_count + 1
       /\ UNCHANGED <<terrainVars, callVars, drawVars, lossVars, fleetVars, epsilon, episode_count, learning_history,
                      epsilon_start, epsilon_min, epsilon_decay>>

\* The values select_action can return in the current state
Selections(training) ==
    LET state == discretize_position(position, drone_bounds, drone_height_bounds)
    IN select_action(WithState(q_table, state), epsilon, state, training)

\* DroneController.update_drone_position -> DroneRLAgent.step, and the
\* write of the new position to cf.drones
Step(training, inp) ==
    \E sel \in Selections(training) :
        /\ StepBody(training, inp, sel)
        /\ last' = [op |-> "step", training |-> training,
                    state |-> discretize_position(position, drone_bounds,
                                                  drone_height_bounds),
                    action |-> sel.action, type |-> sel.type,
                    branch |-> sel.branch,
                    next_state |-> discretize_position(position', drone_bounds,
                                                       drone_height_bounds)]
        /\ UNCHANGED fileVars

\* DroneRLAgent.end_episode
EndEpisodeBody ==
    /\ epsilon' = end_episode_epsilon(epsilon, epsilon_min, epsilon_decay)
    /\ episode_count' = episode_count + 1
    /\ learning_history' = Append(learning_history, epsilon')
    /\ UNCHANGED <<terrainVars, callVars, drawVars, lossVars, fleetVars, position, q_table, step_count, epsilon_start,
                   epsilon_min, epsilon_decay>>

EndEpisode ==
    /\ EndEpisodeBody
    /\ last' = [NoCall EXCEPT !.op = "end_episode"]
    /\ UNCHANGED fileVars

NextAgent ==
    \/ \E training \in BOOLEAN, inp \in StepInputs :
          step_count < MaxSteps /\ Step(training, inp)
    \/ episode_count < MaxEpisodes /\ EndEpisode

SpecAgent == InitAgent /\ [][NextAgent]_vars

----------------------------------------------------------------------------
(* Claims on SpecAgent                                                      *)

RECURSIVE Decayed(_, _, _)
\* eps * decay^n
Decayed(eps, decay, n) ==
    IF n = 0 THEN eps ELSE Decayed((eps \div decay[2]) * decay[1], decay, n - 1)

\* C2: after E end_episode calls mixed with any step calls, epsilon is
\* max(epsilon_min, epsilon_start * epsilon_decay^E); it is never below
\* epsilon_min, and the values it took, from epsilon_start on, never
\* increase.
C2_EpsilonSchedule ==
    /\ epsilon = Max2(epsilon_min, Decayed(epsilon_start, epsilon_decay, episode_count))
    /\ epsilon >= epsilon_min
    /\ Len(learning_history) = episode_count
    /\ \A i \in 1 .. Len(learning_history) :
          /\ learning_history[i] >= epsilon_min
          /\ learning_history[i]
                <= (IF i = 1 THEN epsilon_start ELSE learning_history[i - 1])

\* Two episodes ended, steps in between, and the floor is what holds epsilon
C2_Witness ==
    /\ episode_count = 2
    /\ step_count > 0
    /\ epsilon = epsilon_min
    /\ Decayed(epsilon_start, epsilon_decay, episode_count) < epsilon_min
    /\ learning_history[1] > learning_history[2]

\* C3: a training step replaces Q(s, a) by
\* Q(s,a) + alpha * (r + gamma * max Q(s',.) - Q(s,a)) for the reward r of
\* the step, whichever branch of select_action chose a.
C3_UpdateApplied ==
    [][ (last'.op = "step" /\ last'.training) =>
          \E inp \in StepInputs :
             q_table' = update_q_table_any_type(
                           WithState(q_table, last'.state), last'.state,
                           [action |-> last'.action],
                           calculate_reward(inp.rx_power_dbm_direct,
                                            inp.rx_power_dbm_relay,
                                            inp.tx_distance_direct,
                                            inp.tx_distance_relay,
                                            Num(position'[3]), inp.avg_height),
                           last'.next_state) ]_vars

\* C4: every key of the Q-table is a 3-tuple inside the grid, and its value
\* has exactly the action ids 0..9.
C4_TableShape ==
    \A state \in DOMAIN q_table :
        /\ state \in Seq(Int) /\ Len(state) = 3
        /\ state[1] \in 0 .. (grid_size - 1)
        /\ state[2] \in 0 .. (grid_size - 1)
        /\ state[3] \in 0 .. (height_levels - 1)
        /\ DOMAIN q_table[state] = 0 .. 9

\* Training and non-training steps and an end_episode have run from a
\* position outside the bounds; the table holds two states and a learned
\* value
C4_Witness ==
    /\ step_count = MaxSteps
    /\ episode_count > 0
    /\ Cardinality(DOMAIN q_table) = 2
    /\ <<grid_size - 1, 7, 1>> \in DOMAIN q_table
    /\ \E state \in DOMAIN q_table : \E a \in 0 .. 9 : q_table[state][a] # 0
    /\ last.op = "step" /\ ~last.training

\* C28: a step with training=False changes no Q-value and adds no state to
\* the Q-table, and leaves epsilon and episode_count as they were; only
\* step_count and the position change.
C28_EvaluationStep ==
    [][(last'.op = "step" /\ ~last'.training) =>
          /\ q_table' = q_table
          /\ epsilon' = epsilon
          /\ episode_count' = episode_count]_vars

----------------------------------------------------------------------------
(* Policy persistence: save_policy, load_policy.  A Python str is a sequence *)
(* of one-character strings.  json.dump and json.load carry the document as  *)
(* a structure: numbers unchanged, every key of an object a str.             *)

Digits == <<"0", "1", "2", "3", "4", "5", "6", "7", "8", "9">>

RECURSIVE NatStr(_)
NatStr(n) ==
    IF n < 10 THEN <<Digits[n + 1]>>
    ELSE NatStr(n \div 10) \o <<Digits[(n % 10) + 1]>>

\* str(n) of an int
IntStr(n) == IF n < 0 THEN <<"-">> \o NatStr(-n) ELSE NatStr(n)

RECURSIVE JoinComma(_)
\* ", ".join of the items' str
JoinComma(t) ==
    IF Len(t) = 0 THEN <<>>
    ELSE IF Len(t) = 1 THEN IntStr(t[1])
    ELSE IntStr(t[1]) \o <<",", " ">> \o JoinComma(Tail(t))

\* str(state) of a tuple of ints: "(1, 2, 3)", "(1,)", "()"
TupleStr(t) ==
    <<"(">> \o JoinComma(t) \o (IF Len(t) = 1 THEN <<",">> ELSE <<>>) \o <<")">>

IsDigit(c) == \E d \in 1 .. 10 : Digits[d] = c
DigitValue(c) == (CHOOSE d \in 1 .. 10 : Digits[d] = c) - 1

RECURSIVE Strip(_)
\* str.strip() for spaces
Strip(str) ==
    IF Len(str) = 0 THEN str
    ELSE IF str[1] = " " THEN Strip(Tail(str))
    ELSE IF str[Len(str)] = " " THEN Strip(SubSeq(str, 1, Len(str) - 1))
    ELSE str

RECURSIVE NatVal(_)
NatVal(str) ==
    IF Len(str) = 0 THEN 0
    ELSE NatVal(SubSeq(str, 1, Len(str) - 1)) * 10 + DigitValue(str[Len(str)])

\* int(text): surrounding spaces and one sign are accepted, then decimal
\* digits only; anything else raises ValueError (ok = FALSE)
ParseInt(text) ==
    LET t == Strip(text)
        signed == Len(t) > 0 /\ t[1] \in {"-", "+"}
        body == IF signed THEN Tail(t) ELSE t
        ok == Len(body) > 0 /\ \A i \in 1 .. Len(body) : IsDigit(body[i])
    IN [ok |-> ok,
        v |-> IF ~ok THEN 0
              ELSE IF signed /\ t[1] = "-" THEN -NatVal(body) ELSE NatVal(body)]

RECURSIVE SplitComma(_)
\* text.split(",")
SplitComma(str) ==
    IF \A i \in 1 .. Len(str) : str[i] # "," THEN <<str>>
    ELSE LET i == CHOOSE j \in 1 .. Len(str) :
                     str[j] = "," /\ \A k \in 1 .. (j - 1) : str[k] # ","
         IN <<SubSeq(str, 1, i - 1)>> \o SplitComma(SubSeq(str, i + 1, Len(str)))

\* ast.literal_eval on the texts that occur as keys here: a parenthesised or
\* bracketed comma list of integer literals gives a tuple or a list, other
\* text raises.  "(5)" and "5", which give an int, are not among the keys
\* drawn.
literal_eval(text) ==
    LET t == Strip(text)
        n == Len(t)
        bracketed == n >= 2 /\ <<t[1], t[n]>> \in {<<"(", ")">>, <<"[", "]">>}
        inner == SubSeq(t, 2, n - 1)
        parts == SplitComma(inner)
        trailing == Len(parts) > 1 /\ Strip(parts[Len(parts)]) = <<>>
        items == IF Strip(inner) = <<>> THEN <<>>
                 ELSE IF trailing THEN SubSeq(parts, 1, Len(parts) - 1)
                 ELSE parts
        ok == /\ bracketed
              /\ \A i \in 1 .. Len(items) : ParseInt(items[i]).ok
              /\ (t[1] = "(" /\ Len(items) = 1) => trailing
    IN IF ~ok THEN [k |-> "error", v |-> <<>>]
       ELSE [k |-> IF t[1] = "(" THEN "tuple" ELSE "list",
             v |-> [i \in 1 .. Len(items) |-> ParseInt(items[i]).v]]

\* The document json.dump writes: q_table keyed by str(state), each value
\* the state's actions keyed by the action id's text
save_policy(q, eps, steps, episodes) ==
    [exists |-> TRUE, has_q_table |-> TRUE,
     q_table |-> [key \in {TupleStr(state) : state \in DOMAIN q} |->
                    LET state == CHOOSE st \in DOMAIN q : TupleStr(st) = key
                    IN [k |-> "dict",
                        v |-> [ak \in {IntStr(i) : i \in DOMAIN q[state]} |->
                                 Num(q[state][CHOOSE i \in DOMAIN q[state] :
                                                 IntStr(i) = ak])]]],
     epsilon |-> eps, step_count |-> steps, episode_count |-> episodes]

\* The stored values are not read back
action_dict_defaults(stored) == NewEntry

\* load_policy, the inner loop: action_dict starts as {i: 0.0 for i in
\* range(10)}; action_dict[int(action_key)] = float(q_val) for every pair
\* where both conversions succeed
action_dict(stored) ==
    IF stored.k # "dict" THEN NewEntry
    ELSE LET good == {ak \in DOMAIN stored.v :
                         ParseInt(ak).ok /\ stored.v[ak].k = "num"}
             ids == {ParseInt(ak).v : ak \in good}
         IN [i \in (0 .. 9) \cup ids |->
               IF i \in ids
               THEN stored.v[CHOOSE ak \in good : ParseInt(ak).v = i].v
               ELSE 0]

\* load_policy, the outer loop: the table rebuilt from the document's
\* q_table.  A key that literal_eval rejects is skipped, and so is a list,
\* which cannot be a dict key; every tuple is stored.
load_q_table(doc_q_table) ==
    LET good == {key \in DOMAIN doc_q_table : literal_eval(key).k = "tuple"}
        states == {literal_eval(key).v : key \in good}
    IN [state \in states |->
          action_dict(doc_q_table[CHOOSE key \in good :
                                      literal_eval(key).v = state])]

----------------------------------------------------------------------------
(* SpecPolicy: one agent that steps, ends episodes, saves its policy, loads *)
(* it, and whose policy file can also be replaced from outside              *)

\* Calls of one run: step calls, end_episode calls, and save, replace and
\* load together
PolicySteps == 1
PolicyEpisodes == 1
MaxFileOps == 2

NoFile ==
    [exists |-> FALSE, has_q_table |-> FALSE, q_table |-> <<>>,
     epsilon |-> 0, step_count |-> 0, episode_count |-> 0]

NoSave ==
    [valid |-> FALSE, q_table |-> <<>>, epsilon |-> 0, step_count |-> 0,
     episode_count |-> 0]

\* Texts used in the documents below
K_1_2_3 == <<"(", "1", ",", " ", "2", ",", " ", "3", ")">>
K_1_2 == <<"(", "1", ",", " ", "2", ")">>
K_99_0_0 == <<"(", "9", "9", ",", " ", "0", ",", " ", "0", ")">>
K_list == <<"[", "4", ",", " ", "5", ",", " ", "6", "]">>
K_text == <<"n", "o", "n", "e">>
K_7_7_4 == <<"(", "7", ",", "7", ",", "4", ")">>

\* Documents a policy file can hold that save_policy did not write: a state
\* key with two coordinates beside a good one; a coordinate outside the
\* grid; an action id 12 and an action key that is no number; a list and a
\* word as state keys, a null value, actions that are no object; a document
\* without the key "q_table"
ForeignDocuments ==
    { [exists |-> TRUE, has_q_table |-> TRUE,
       q_table |-> (K_1_2_3 :> [k |-> "dict",
                                v |-> (<<"0">> :> Num(QDen) @@ <<"9">> :> Num(-QDen))]
                    @@ K_1_2 :> [k |-> "dict", v |-> (<<"0">> :> Num(QDen))]),
       epsilon |-> EpsDen \div 10, step_count |-> 7, episode_count |-> 3],
      [exists |-> TRUE, has_q_table |-> TRUE,
       q_table |-> (K_99_0_0 :> [k |-> "dict", v |-> (<<"1">> :> Num(QDen))]),
       epsilon |-> EpsDen \div 10, step_count |-> 7, episode_count |-> 3],
      [exists |-> TRUE, has_q_table |-> TRUE,
       q_table |-> (K_1_2_3 :> [k |-> "dict",
                                v |-> (<<"1", "2">> :> Num(QDen)
                                       @@ <<"x">> :> Num(QDen)
                                       @@ <<"3">> :> Num(2 * QDen))]),
       epsilon |-> EpsDen \div 10, step_count |-> 7, episode_count |-> 3],
      [exists |-> TRUE, has_q_table |-> TRUE,
       q_table |-> (K_list :> [k |-> "dict", v |-> (<<"0">> :> Num(QDen))]
                    @@ K_text :> [k |-> "dict", v |-> (<<"0">> :> Num(QDen))]
                    @@ K_7_7_4 :> [k |-> "dict",
                                   v |-> (<<"2">> :> None @@ <<" ", "5">> :> Num(QDen))]
                    @@ K_1_2_3 :> [k |-> "list", v |-> <<>>]),
       epsilon |-> EpsDen \div 10, step_count |-> 7, episode_count |-> 3],
      [exists |-> TRUE, has_q_table |-> FALSE, q_table |-> <<>>,
       epsilon |-> EpsDen \div 10, step_count |-> 7, episode_count |-> 3] }

\* The call just made and the calls made so far
PolicyCall(op, steps, file_ops) ==
    [op |-> op, differed |-> FALSE, steps |-> steps, file_ops |-> file_ops]

InitPolicy ==
    /\ InitTerrain
    /\ LAYERS[2] = 10
    /\ LAYERS[3] = 10
    /\ position = <<340, 300, 95>>
    /\ q_table = <<>>
    /\ epsilon_start = (3 * EpsDen) \div 10
    /\ epsilon = epsilon_start
    /\ epsilon_min = EpsDen \div 20
    /\ epsilon_decay = <<199, 200>>
    /\ step_count = 0
    /\ episode_count = 0
    /\ learning_history = <<>>
    /\ policy_file = NoFile
    /\ saved = NoSave
    /\ FleetUnused
    /\ last = PolicyCall("init", 0, 0)

\* DroneRLAgent.step with training on
PolicyStep ==
    \E sel \in Selections(TRUE) :
        /\ StepBody(TRUE, RelayGains, sel)
        /\ last' = PolicyCall("step", last.steps + 1, last.file_ops)
        /\ UNCHANGED fileVars

\* DroneRLAgent.save_policy; saved notes the agent the file was written from
SavePolicy ==
    /\ policy_file' = save_policy(q_table, epsilon, step_count, episode_count)
    /\ saved' = [valid |-> TRUE, q_table |-> q_table, epsilon |-> epsilon,
                 step_count |-> step_count, episode_count |-> episode_count]
    /\ last' = PolicyCall("save_policy", last.steps, last.file_ops + 1)
    /\ UNCHANGED <<terrainVars, callVars, drawVars, lossVars, fleetVars, agentVars>>

\* The file is replaced by a document from elsewhere
ReplaceFile(doc) ==
    /\ policy_file' = doc
    /\ saved' = NoSave
    /\ last' = PolicyCall("replace_file", last.steps, last.file_ops + 1)
    /\ UNCHANGED <<terrainVars, callVars, drawVars, lossVars, fleetVars, agentVars>>

\* DroneRLAgent.load_policy.  open() raises without a file and the handler
\* returns; the table is reset at line 383, before policy["q_table"] is
\* read, and epsilon and the counters are set after the loop.
LoadPolicy ==
    /\ q_table' = IF ~policy_file.exists THEN q_table
                  ELSE IF ~policy_file.has_q_table THEN <<>>
                  ELSE load_q_table(policy_file.q_table)
    /\ IF policy_file.exists /\ policy_file.has_q_table
       THEN /\ epsilon' = policy_file.epsilon
            /\ step_count' = policy_file.step_count
            /\ episode_count' = policy_file.episode_count
       ELSE UNCHANGED <<epsilon, step_count, episode_count>>
    /\ last' = [PolicyCall("load_policy", last.steps, last.file_ops + 1)
                  EXCEPT !.differed =
                     <<q_table, epsilon, step_count, episode_count>>
                        # <<q_table', epsilon', step_count', episode_count'>>]
    /\ UNCHANGED <<terrainVars, callVars, drawVars, lossVars, fleetVars, position, learning_history, epsilon_start,
                   epsilon_min, epsilon_decay, fileVars>>

\* DroneRLAgent.end_episode
PolicyEndEpisode ==
    /\ EndEpisodeBody
    /\ last' = PolicyCall("end_episode", last.steps, last.file_ops)
    /\ UNCHANGED fileVars

NextPolicy ==
    \/ last.steps < PolicySteps /\ PolicyStep
    \/ Len(learning_history) < PolicyEpisodes /\ PolicyEndEpisode
    \/ last.file_ops < MaxFileOps /\ SavePolicy
    \/ \E doc \in ForeignDocuments : last.file_ops < MaxFileOps /\ ReplaceFile(doc)
    \/ last.file_ops < MaxFileOps /\ LoadPolicy

SpecPolicy == InitPolicy /\ [][NextPolicy]_vars

\* C30: a load_policy call that fails, the file missing or the document
\* without a q_table, leaves the Q-table, epsilon, step_count and
\* episode_count as they were before the call.
C30_FailedLoad ==
    (last.op = "load_policy" /\ (~policy_file.exists \/ ~policy_file.has_q_table)) =>
        ~last.differed

WellFormedState(state) ==
    /\ Len(state) = 3
    /\ state[1] \in 0 .. (grid_size - 1)
    /\ state[2] \in 0 .. (grid_size - 1)
    /\ state[3] \in 0 .. (height_levels - 1)

\* C5: load_policy of the file save_policy wrote gives the Q-table, epsilon,
\* step_count and episode_count the agent had at the save, whatever the
\* agent did in between.
C5_RoundTrip ==
    (last.op = "load_policy" /\ saved.valid) =>
        /\ q_table = saved.q_table
        /\ epsilon = saved.epsilon
        /\ step_count = saved.step_count
        /\ episode_count = saved.episode_count

\* A load that changed the agent back to a saved table of two states with a
\* learned value
C5_Witness ==
    /\ last.op = "load_policy" /\ saved.valid /\ last.differed
    /\ Cardinality(DOMAIN q_table) = 2
    /\ \E state \in DOMAIN q_table : \E a \in 0 .. 9 : q_table[state][a] # 0
    /\ q_table = saved.q_table

\* C6: after a load, every key of the Q-table is a 3-tuple of grid indices,
\* every state has the action ids 0..9 and no other, and every entry of the
\* file with such a key is in the table.
C6_MalformedSkipped ==
    (last.op = "load_policy" /\ policy_file.exists /\ policy_file.has_q_table) =>
        /\ \A state \in DOMAIN q_table :
              WellFormedState(state) /\ DOMAIN q_table[state] = 0 .. 9
        /\ \A key \in DOMAIN policy_file.q_table :
              (literal_eval(key).k = "tuple" /\ WellFormedState(literal_eval(key).v))
                 => literal_eval(key).v \in DOMAIN q_table

----------------------------------------------------------------------------
(* SpecLoop: the simulation loop of main.py with its DroneController.  One  *)
(* action is one pass of the while loop with training enabled and drones    *)
(* present.  Each agent is its counters and its epsilon, and a step hands   *)
(* back a reward; the Q-table and the position, which SpecAgent covers, do  *)
(* not reach the loop's counters.  Drone i of the code is drone i + 1 here. *)

\* main.py:63-69 sets rl_update_frequency = 10, episode_length = 300 (thirty
\* updates), autosave_episodes = 5, max_episode_history = 10.  The loop runs
\* here with smaller periods of the same shape.
rl_update_frequency == 2
StepsPerEpisode == 2
episode_length == StepsPerEpisode * rl_update_frequency
autosave_episodes == 2
max_episode_history == 2
\* main.py:70
train_reward_threshold == 5
\* configM.py:4
number_of_drone == 2
\* Episodes completed in one run
LoopEpisodes == 4

Drones == 1 .. number_of_drone

\* The rewards the drones' steps return on one update, one per drone
RewardInputs == { <<0, 3>>, <<3, 0>>, <<3, 3>> }

RECURSIVE SumSeq(_)
\* sum(...)
SumSeq(seq) == IF Len(seq) = 0 THEN 0 ELSE seq[1] + SumSeq(Tail(seq))

\* The whole history instead of its last max_episode_history entries
recent_all(history) == history

\* episode_rewards[i][-max_episode_history:]
recent(history) ==
    IF Len(history) <= max_episode_history THEN history
    ELSE SubSeq(history, Len(history) - max_episode_history + 1, Len(history))

\* main.py:147-154: the flag of one drone; sum(recent) / len(recent) >=
\* threshold, on integers
training_flag(history) ==
    IF Len(recent(history)) = 0 THEN TRUE
    ELSE ~(SumSeq(recent(history)) >= train_reward_threshold * Len(recent(history)))

\* The counter is not reset when an update is made
next_frame_counter_no_reset(counter) == counter + 1

\* main.py:159-161: frame_counter after the pass
next_frame_counter(counter) ==
    IF counter + 1 >= rl_update_frequency THEN 0 ELSE counter + 1

\* Every completed episode saves
autosave_due_always(episodes) == TRUE

\* main.py:186: total_episodes % autosave_episodes == 0
autosave_due(episodes) == episodes % autosave_episodes = 0

\* DroneRLAgent() as DroneController builds it: the default epsilon 0.3
NewAgent ==
    [epsilon |-> (3 * EpsDen) \div 10, step_count |-> 0, episode_count |-> 0]

\* DroneRLAgent.end_episode with the default epsilon_min 0.05 and
\* epsilon_decay 0.995; beyond MaxEpisodes decays the product is rounded
\* to the fixed-point grid
agent_end_episode(agent) ==
    [agent EXCEPT
        !.epsilon = end_episode_epsilon(agent.epsilon, EpsDen \div 20, <<199, 200>>),
        !.episode_count = agent.episode_count + 1]

InitLoop ==
    /\ InitTerrain
    /\ LAYERS[2] = 10
    /\ LAYERS[3] = 10
    /\ position = <<0, 0, 0>>
    /\ AgentUnused
    /\ FileUnused
    /\ frame_counter = 0
    /\ episode_frame = 0
    /\ total_episodes = 0
    /\ training_flags = [i \in Drones |-> TRUE]
    /\ episode_rewards = [i \in Drones |-> <<>>]
    /\ cumulative_rewards = [i \in Drones |-> 0]
    /\ agents = [i \in Drones |-> NewAgent]
    /\ saved_policies = <<>>
    /\ drones = <<>>
    /\ towers = <<>>
    /\ per_drone_metrics = <<>>
    /\ last = [op |-> "init", tick |-> 0, stepped |-> FALSE, ended |-> FALSE,
               saved |-> FALSE, earned |-> [i \in Drones |-> 0],
               episode_steps |-> [i \in Drones |-> 0]]

\* One pass of the loop, main.py:146-192; rewards are what the steps return
\* if this pass makes them
Tick(rewards) ==
    LET due == frame_counter + 1 >= rl_update_frequency
        \* DroneController.update_drone_position for every drone
        stepped == [i \in Drones |->
                      [agents[i] EXCEPT !.step_count = agents[i].step_count + 1]]
        agents1 == IF due THEN stepped ELSE agents
        cumulative1 == IF due
                       THEN [i \in Drones |-> cumulative_rewards[i] + rewards[i]]
                       ELSE cumulative_rewards
        ends == episode_frame + 1 >= episode_length
        episodes1 == IF ends THEN total_episodes + 1 ELSE total_episodes
        \* DroneController.end_episode
        agents2 == IF ends THEN [i \in Drones |-> agent_end_episode(agents1[i])]
                   ELSE agents1
        saves == ends /\ autosave_due(episodes1)
    IN /\ training_flags' = [i \in Drones |-> training_flag(episode_rewards[i])]
       /\ frame_counter' = next_frame_counter(frame_counter)
       /\ episode_frame' = IF ends THEN 0 ELSE episode_frame + 1
       /\ total_episodes' = episodes1
       /\ episode_rewards' =
             IF ends
             THEN [i \in Drones |-> Append(episode_rewards[i], cumulative1[i])]
             ELSE episode_rewards
       /\ cumulative_rewards' = IF ends THEN [i \in Drones |-> 0] ELSE cumulative1
       /\ agents' = agents2
       \* DroneController.save_policies
       /\ saved_policies' = IF saves THEN agents2 ELSE saved_policies
       /\ last' = [op |-> "tick", tick |-> last.tick + 1, stepped |-> due,
                   ended |-> ends, saved |-> saves,
                   earned |-> [i \in Drones |->
                                 last.earned[i] + IF due THEN rewards[i] ELSE 0],
                   episode_steps |-> [i \in Drones |->
                                 (IF last.ended THEN 0 ELSE last.episode_steps[i])
                                 + (agents1[i].step_count - agents[i].step_count)]]
       /\ UNCHANGED <<terrainVars, callVars, drawVars, lossVars, agentVars, fileVars, metricVars>>

NextLoop ==
    /\ total_episodes < LoopEpisodes
    /\ \E rewards \in (IF frame_counter + 1 >= rl_update_frequency
                       THEN RewardInputs ELSE { <<0, 0>> }) :
          Tick(rewards)

SpecLoop == InitLoop /\ [][NextLoop]_vars

RECURSIVE EpsilonAfter(_)
\* epsilon of a new agent after n end_episode calls
EpsilonAfter(n) ==
    IF n = 0 THEN NewAgent.epsilon
    ELSE end_episode_epsilon(EpsilonAfter(n - 1), EpsDen \div 20, <<199, 200>>)

\* C7: every drone's agent makes one step on every rl_update_frequency-th
\* pass and none on the others, and an episode that ends has had
\* episode_length / rl_update_frequency steps of every drone.
C7_StepCadence ==
    /\ last.stepped <=> (last.tick > 0 /\ last.tick % rl_update_frequency = 0)
    /\ \A i \in Drones :
          /\ agents[i].step_count = last.tick \div rl_update_frequency
          /\ last.ended =>
                last.episode_steps[i] = episode_length \div rl_update_frequency

\* The second episode has just ended on a pass that made the last of its steps
C7_Witness ==
    /\ last.ended /\ last.stepped
    /\ total_episodes = 2
    /\ \A i \in Drones : agents[i].step_count = 2 * StepsPerEpisode
    /\ last.tick = 2 * episode_length

\* C8: an episode ends on every episode_length-th pass and on no other; each
\* end decays every agent's epsilon once, adds one to its episode_count,
\* appends the drone's cumulative reward to its history and resets it; the
\* policies are saved on the ends of the episodes whose number is a multiple
\* of autosave_episodes, as the agents are after end_episode.
C8_EpisodeBoundary ==
    /\ total_episodes = last.tick \div episode_length
    /\ last.ended <=> (last.tick > 0 /\ last.tick % episode_length = 0)
    /\ last.saved <=> (last.ended /\ total_episodes % autosave_episodes = 0)
    /\ \A i \in Drones :
          /\ agents[i].episode_count = total_episodes
          /\ agents[i].epsilon = EpsilonAfter(total_episodes)
          /\ Len(episode_rewards[i]) = total_episodes
          /\ SumSeq(episode_rewards[i]) + cumulative_rewards[i] = last.earned[i]
          /\ last.ended => cumulative_rewards[i] = 0
    /\ IF total_episodes < autosave_episodes THEN saved_policies = <<>>
       ELSE LET n == (total_episodes \div autosave_episodes) * autosave_episodes
            IN \A i \in Drones :
                  saved_policies[i] =
                     [epsilon |-> EpsilonAfter(n), episode_count |-> n,
                      step_count |-> n * (episode_length \div rl_update_frequency)]

\* The third episode has ended without a save, after the save of the second,
\* and drone 1 earned something in it
C8_Witness ==
    /\ last.ended /\ ~last.saved
    /\ total_episodes = 3
    /\ saved_policies # <<>> /\ saved_policies[1].episode_count = 2
    /\ agents[1].episode_count = 3
    /\ episode_rewards[1][3] > 0
    /\ cumulative_rewards[1] = 0

\* The history the flags of the last pass were computed from
HistoryAtFlags(i) ==
    IF last.ended
    THEN SubSeq(episode_rewards[i], 1, Len(episode_rewards[i]) - 1)
    ELSE episode_rewards[i]

\* C9: on every pass, drone i's training flag is false exactly when it has a
\* completed episode and the mean of its last min(max_episode_history, n)
\* episode rewards is at least train_reward_threshold.
C9_AdaptiveFreeze ==
    last.op = "tick" =>
        \A i \in Drones :
            LET h == HistoryAtFlags(i)
                n == Len(h)
                w == Min2(max_episode_history, n)
                window == SubSeq(h, n - w + 1, n)
            IN training_flags[i] =
                  ~(n >= 1 /\ SumSeq(window) >= train_reward_threshold * w)

\* A drone frozen by its last two episodes although its whole history
\* averages below the threshold, beside one that trains again after a freeze
C9_Witness ==
    /\ last.op = "tick" /\ ~last.ended
    /\ \E i \in Drones :
          /\ ~training_flags[i]
          /\ Len(episode_rewards[i]) > max_episode_history
          /\ SumSeq(episode_rewards[i])
                < train_reward_threshold * Len(episode_rewards[i])
    /\ \E i \in Drones :
          /\ training_flags[i]
          /\ Len(episode_rewards[i]) > 1
          /\ ~training_flag(SubSeq(episode_rewards[i], 1, 1))

----------------------------------------------------------------------------
(* SpecMetrics: the signal metrics main.py gathers for every drone, and the *)
(* moves that change cf.drones in between                                   *)

(* Lengths in the loss functions are fixed-point over PosDen, losses in dB  *)
(* over LossDen, the interpolation factor t over TDen, logarithms to base 2 *)
(* over LogDen; a frequency is held in MHz.                                 *)
PosDen == 2
LossDen == 100
TDen == 1000
LogBits == 10
LogDen == 2 ^ LogBits

\* an integer position in metres as a fixed-point position
Units(p) == <<p[1] * PosDen, p[2] * PosDen, p[3] * PosDen>>

\* math.sqrt, to the integer below
RECURSIVE IsqrtBetween(_, _, _)
IsqrtBetween(n, lo, hi) ==
    IF lo >= hi THEN lo
    ELSE LET mid == (lo + hi + 1) \div 2
         IN IF mid * mid <= n THEN IsqrtBetween(n, mid, hi)
            ELSE IsqrtBetween(n, lo, mid - 1)
Isqrt(n) == IsqrtBetween(n, 0, 46340)

\* math.log2 of an integer n >= 1 over LogDen, to the multiple below: the
\* exponent, then one bit of the fraction for every squaring of the mantissa
RECURSIVE FloorLog2(_)
FloorLog2(n) == IF n < 2 THEN 0 ELSE 1 + FloorLog2(n \div 2)
RECURSIVE Log2Frac(_, _)
Log2Frac(m, bits) ==
    IF bits = 0 THEN 0
    ELSE LET sq == (m * m) \div (2 ^ 14)
         IN IF sq >= 2 ^ 15 THEN 2 ^ (bits - 1) + Log2Frac(sq \div 2, bits - 1)
            ELSE Log2Frac(sq, bits - 1)
Log2(n) ==
    LET e == FloorLog2(n)
        m == IF e <= 14 THEN n * 2 ^ (14 - e) ELSE n \div (2 ^ (e - 14))
    IN e * LogDen + Log2Frac(m, LogBits)

\* 20 * math.log10(n / d) over LossDen; 20 * log10(2) = 6.0206
Decibels(n, d) == ((Log2(n) - Log2(d)) * 602) \div LogDen
\* math.log1p(w) of a length w, over LogDen; ln(2) * 1024 = 709.8
log1p(w) == ((Log2(PosDen + w) - Log2(PosDen)) * 710) \div 1024

\* elements/distance.py: calculate_distance of two 3D points
calculate_distance(point1, point2) ==
    Isqrt((point2[1] - point1[1]) * (point2[1] - point1[1])
          + (point2[2] - point1[2]) * (point2[2] - point1[2])
          + (point2[3] - point1[3]) * (point2[3] - point1[3]))

\* loss.py:4-22
free_space_path_loss(distance_m, freq_mhz) ==
    LET d == IF distance_m <= 0 THEN PosDen ELSE distance_m
        f == IF freq_mhz <= 0 THEN 2400 ELSE freq_mhz
    IN Decibels(d, PosDen) + Decibels(f, 1) - 2756

\* loss.py:74-80: the interpolation factor t of a hill, from the doubled
\* distance of tx to the segment's midpoint
interpolation_t(dist_to_mid2, total_dist) ==
    IF dist_to_mid2 <= 0 THEN TDen \div 2
    ELSE Max2(0, Min2((dist_to_mid2 * TDen) \div (2 * total_dist), TDen))

\* loss.py:66-75: twice math.dist(tx[:2], (mid_x, mid_y))
dist_to_mid_doubled(tx_pos, segment) ==
    LET mx == segment[1][1] + segment[2][1]
        my == segment[1][2] + segment[2][2]
    IN Isqrt((2 * tx_pos[1] - mx) * (2 * tx_pos[1] - mx)
             + (2 * tx_pos[2] - my) * (2 * tx_pos[2] - my))

\* loss.py:58-115: the loss of one hill.  A segment that is not a pair of
\* points is skipped.  The Fresnel radius is in centimetres; 1e-6 is below
\* that resolution.
hill_loss(tx_pos, rx_pos, hill, total_dist, freq_mhz) ==
    IF Len(hill.segment) # 2 THEN 0
    ELSE LET t == interpolation_t(dist_to_mid_doubled(tx_pos, hill.segment),
                                  total_dist)
             los_height == tx_pos[3] * TDen + t * (rx_pos[3] - tx_pos[3])
             h == hill.height * TDen - los_height
             dx == hill.segment[1][1] - hill.segment[2][1]
             dy == hill.segment[1][2] - hill.segment[2][2]
             width == Isqrt(dx * dx + dy * dy)
             hill_width == IF width <= 0 THEN PosDen ELSE width
             width_factor == log1p(hill_width)
             fresnel == Max2(1, Isqrt(((1500000 \div freq_mhz) * total_dist)
                                          \div PosDen))
             den == PosDen * (TDen \div 100) * fresnel * LogDen
         IN IF h <= 0 THEN 0
            ELSE Decibels(den + h * width_factor, den)

RECURSIVE SumHillLoss(_, _, _, _, _, _)
SumHillLoss(tx_pos, rx_pos, hills, k, total_dist, freq_mhz) ==
    IF k > Len(hills) THEN 0
    ELSE hill_loss(tx_pos, rx_pos, hills[k], total_dist, freq_mhz)
         + SumHillLoss(tx_pos, rx_pos, hills, k + 1, total_dist, freq_mhz)

\* loss.py:25-125
rl_multi_hill_diffraction(tx_pos, rx_pos, hills, freq_hz) ==
    LET f == IF freq_hz <= 0 THEN 2400 ELSE freq_hz
        dist == calculate_distance(tx_pos, rx_pos)
        total_dist == IF dist <= 0 THEN PosDen ELSE dist
    IN IF Len(hills) = 0 THEN 0
       ELSE SumHillLoss(tx_pos, rx_pos, hills, 1, total_dist, f)

\* calculate_segment_loss: the distance it reports for a segment
segment_distance(pos_from, pos_to) ==
    IF calculate_distance(pos_from, pos_to) <= 0 THEN PosDen
    ELSE calculate_distance(pos_from, pos_to)

\* terrain_moderator.py:9-47, for well-formed points
calculate_segment_loss(pos_from, pos_to, hills, freq_hz) ==
    LET distance == segment_distance(pos_from, pos_to)
        fspl == free_space_path_loss(distance, freq_hz)
        diffraction == rl_multi_hill_diffraction(pos_from, pos_to, hills, freq_hz)
        total == fspl + diffraction
    IN [distance |-> distance, fspl |-> fspl, diffraction |-> diffraction,
        total |-> IF total < 0 THEN 80 * LossDen ELSE total]

RECURSIVE SumTotals(_, _)
SumTotals(segment_losses, k) ==
    IF k > Len(segment_losses) THEN 0
    ELSE segment_losses[k].total + SumTotals(segment_losses, k + 1)

\* The relays are taken in reverse order
calculate_multihop_relay_loss_reversed(tx_pos, drone_positions, rx_pos, hills, freq_hz) ==
    LET relay_path == <<tx_pos>>
                      \o [j \in DOMAIN drone_positions |->
                            drone_positions[Len(drone_positions) + 1 - j]]
                      \o <<rx_pos>>
        segment_losses == [j \in 1 .. (Len(relay_path) - 1) |->
                             calculate_segment_loss(relay_path[j], relay_path[j + 1],
                                                    hills, freq_hz)]
    IN [segment_losses |-> segment_losses,
        total_loss |-> SumTotals(segment_losses, 1),
        num_hops |-> Len(relay_path) - 1,
        relay_path |-> relay_path]

\* Without relays there is no path: the fallback of terrain_moderator.py:87-92
calculate_multihop_relay_loss_needs_relay(tx_pos, drone_positions, rx_pos, hills, freq_hz) ==
    IF Len(drone_positions) = 0
    THEN [segment_losses |-> <<>>, total_loss |-> 100 * LossDen, num_hops |-> 0,
          relay_path |-> <<>>]
    ELSE LET relay_path == <<tx_pos>> \o drone_positions \o <<rx_pos>>
             segment_losses == [j \in 1 .. (Len(relay_path) - 1) |->
                                  calculate_segment_loss(relay_path[j],
                                                         relay_path[j + 1],
                                                         hills, freq_hz)]
         IN [segment_losses |-> segment_losses,
             total_loss |-> SumTotals(segment_losses, 1),
             num_hops |-> Len(relay_path) - 1,
             relay_path |-> relay_path]

\* terrain_moderator.py:49-92, for a list of well-formed points
calculate_multihop_relay_loss(tx_pos, drone_positions, rx_pos, hills, freq_hz) ==
    LET relay_path == <<tx_pos>> \o drone_positions \o <<rx_pos>>
        segment_losses == [j \in 1 .. (Len(relay_path) - 1) |->
                             calculate_segment_loss(relay_path[j], relay_path[j + 1],
                                                    hills, freq_hz)]
        total_loss == SumTotals(segment_losses, 1)
    IN [segment_losses |-> segment_losses,
        total_loss |-> IF total_loss < 0 THEN 100 * LossDen ELSE total_loss,
        num_hops |-> Len(relay_path) - 1,
        relay_path |-> relay_path]

\* SumSeq of the segments' distances (terrain_moderator.py:167-170)
RECURSIVE SumDistances(_, _)
SumDistances(segment_losses, k) ==
    IF k > Len(segment_losses) THEN 0
    ELSE segment_losses[k].distance + SumDistances(segment_losses, k + 1)

\* get_drone_signal_metrics: the relay path is built from cf.drones; the
\* parameter drone_pos is not read
get_drone_signal_metrics(tx_pos, rx_pos, drone_pos, hills, freq_hz, cf_drones) ==
    LET relay_info == calculate_multihop_relay_loss(tx_pos, cf_drones, rx_pos,
                                                    hills, freq_hz)
        direct == calculate_distance(tx_pos, rx_pos)
        total == SumDistances(relay_info.segment_losses, 1)
    IN [tx_distance_direct |-> IF direct <= 0 THEN PosDen ELSE direct,
        tx_distance_relay |-> IF total <= 0 THEN PosDen ELSE total,
        relay_total_loss |-> relay_info.total_loss,
        relay_info |-> [relay_path |-> relay_info.relay_path,
                        num_hops |-> relay_info.num_hops]]

\* main.py:104-105
tx == <<35, 35, towers[1]>>
rx == <<W - 35, H - 35, towers[2]>>

\* terrain_config.py:9-10: random.randint(20, 70), the ends of the range
TowerHeights == {20, 70}

InitMetrics ==
    /\ InitTerrain
    /\ LAYERS[2] = 10
    /\ LAYERS[3] = 10
    /\ position = <<0, 0, 0>>
    /\ AgentUnused
    /\ FileUnused
    /\ frame_counter = 0
    /\ episode_frame = 0
    /\ total_episodes = 0
    /\ training_flags = <<>>
    /\ episode_rewards = <<>>
    /\ cumulative_rewards = <<>>
    /\ agents = <<>>
    /\ saved_policies = <<>>
    /\ drones = << <<340, 300, 95>>, <<600, 400, 100>> >>
    /\ towers \in TowerHeights \X TowerHeights
    /\ per_drone_metrics = <<>>
    /\ last = [op |-> "init", moves |-> 0]

\* main.py:111-135: the metrics of every drone
GatherMetrics ==
    /\ per_drone_metrics' =
          [i \in Drones |->
             get_drone_signal_metrics(Units(tx), Units(rx), Units(drones[i]), <<>>,
                                      2400, [j \in DOMAIN drones |-> Units(drones[j])])]
    /\ last' = [last EXCEPT !.op = "gather"]
    /\ UNCHANGED <<terrainVars, callVars, drawVars, lossVars, agentVars, fileVars, loopVars, drones, towers>>

\* DroneController.update_drone_position: the agent's move written to
\* cf.drones[i]
MoveDrone(i, a) ==
    /\ drones' = [drones EXCEPT
                     ![i] = apply_action(drones[i], a, drone_bounds,
                                         drone_height_bounds)]
    /\ last' = [op |-> "move", moves |-> last.moves + 1]
    /\ UNCHANGED <<terrainVars, callVars, drawVars, lossVars, agentVars, fileVars, loopVars, towers,
                   per_drone_metrics>>

NextMetrics ==
    \/ GatherMetrics
    \/ \E i \in Drones, a \in ActionIds : last.moves < MaxMoves /\ MoveDrone(i, a)

SpecMetrics == InitMetrics /\ [][NextMetrics]_vars

\* C10: the metrics gathered for drone i use the relay path tx, drone i, rx:
\* two segments, and the relay distance is the sum of their lengths.
C10_SingleHop ==
    last.op = "gather" =>
        \A i \in Drones :
            /\ per_drone_metrics[i].relay_info.relay_path
                  = <<Units(tx), Units(drones[i]), Units(rx)>>
            /\ per_drone_metrics[i].relay_info.num_hops = 2
            /\ per_drone_metrics[i].tx_distance_relay
                  = segment_distance(Units(tx), Units(drones[i]))
                    + segment_distance(Units(drones[i]), Units(rx))

----------------------------------------------------------------------------
(* SpecTerrain: draw_terrain's search for the hills on the sight line and   *)
(* the obstruction list terrain_moderator builds from it, frame after       *)
(* frame, with the + and - keys changing the tolerance in between.          *)
(*                                                                          *)
(* A contour sample is [x, y, layer] with x, y in half pixels (a float      *)
(* coordinate to one binary place); cf.tolerance is in half units too.      *)
(* Hill h of the code is entry h + 1 of a sequence here; visited holds the  *)
(* code's hill ids.                                                         *)

\* the tolerance the + key can reach in one run, in half units
MaxTolerance == 3

\* the point of the sight line (35, 35) - (765, 565) at j / 2 of its tenths
SightPoint(j) == <<70 + 73 * j, 70 + 53 * j>>

\* Two outcomes of configT(800, 600) with hills = 7 in which three hills
\* of radius 45 sit on the sight line, which crosses their outer contour at
\* SightPoint(c + 1) and SightPoint(c - 1) for the centre SightPoint(c);
\* the two other hills are far from it.  OnLine gives the centre of a hill.
SightCenters ==
    { << <<0, 0>>, <<800, 600>>, <<254, 194>>, <<400, 300>>, <<546, 406>>,
         <<200, 450>>, <<600, 150>> >>,
      << <<0, 0>>, <<800, 600>>, <<200, 450>>, <<254, 194>>, <<400, 300>>,
         <<600, 150>>, <<546, 406>> >> }
SightRadius(c) == IF c \in {<<0, 0>>, <<800, 600>>} THEN 100
                  ELSE IF c \in {<<200, 450>>, <<600, 150>>} THEN 40 ELSE 45
OnLine(c) == IF c = <<254, 194>> THEN 6
             ELSE IF c = <<400, 300>> THEN 10
             ELSE IF c = <<546, 406>> THEN 14 ELSE 0
\* terrain_config.py:30: int(r/10) .. int(r/5) layers; first and last are
\* the layers of the first and the last hill on the sight line
SightLayers(c, first, last_) ==
    IF SightRadius(c) = 100 THEN 10
    ELSE IF SightRadius(c) = 40 THEN 4
    ELSE IF c = <<254, 194>> THEN first
    ELSE IF c = <<400, 300>> THEN 6 ELSE last_

\* The samples of a hill's contours that come near the sight line, in the
\* order the loops of terrain.py:42-45 reach them (layer, then angle); pick
\* chooses the contour of a hill on the sight line
Sample(p, dx, dy, layer) == [x |-> p[1] + dx, y |-> p[2] + dy, layer |-> layer]
ContourShapes == 1 .. 4
Contours(c, pick) ==
    IF OnLine(c) = 0
    THEN << Sample(<<2 * c[1], 2 * c[2]>>, 2 * SightRadius(c), 0, 0) >>
    ELSE LET enter == SightPoint(OnLine(c) + 1)
             leave == SightPoint(OnLine(c) - 1)
         IN CASE pick = 1 -> << Sample(enter, 0, 0, 0), Sample(leave, 0, 0, 0),
                                Sample(enter, -15, -11, 1) >>
              [] pick = 2 -> << Sample(enter, 0, 0, 0), Sample(enter, -2, -1, 0),
                                Sample(leave, 0, 0, 0) >>
              [] pick = 3 -> << Sample(enter, 0, 0, 0) >>
              [] OTHER -> << Sample(enter, 0, 2, 0) >>

\* terrain.py:16-17: abs(y - (35 + 530/730*(x - 35))) < cf.tolerance
line_of_sight_validation(x, y, tol) ==
    LET off == 730 * (y - 70) - 530 * (x - 70)
    IN (IF off >= 0 THEN off ELSE -off) < 730 * tol

\* A point seen before is recorded again and the search is not stopped
DrawSample_recorded_again(d, h, s, tol) ==
    IF ~d.los /\ line_of_sight_validation(s.x, s.y, tol)
    THEN [d EXCEPT !.inter = @ \cup {<<s.x, s.y>>},
                   !.inter_points[h + 1] =
                       IF s.layer = 0
                       THEN Append(@, <<TruncDiv(s.x, 2), TruncDiv(s.y, 2)>>)
                       ELSE @]
    ELSE d

\* terrain.py:51-60: one sample of hill h; d holds inter, inter_points, los
DrawSample(d, h, s, tol) ==
    IF ~d.los /\ line_of_sight_validation(s.x, s.y, tol)
    THEN IF <<s.x, s.y>> \in d.inter
         THEN [d EXCEPT !.los = TRUE]
         ELSE [d EXCEPT !.inter = @ \cup {<<s.x, s.y>>},
                        !.inter_points[h + 1] =
                            IF s.layer = 0
                            THEN Append(@, <<TruncDiv(s.x, 2), TruncDiv(s.y, 2)>>)
                            ELSE @]
    ELSE d

RECURSIVE DrawSamples(_, _, _, _, _)
DrawSamples(d, h, samples, k, tol) ==
    IF k > Len(samples) THEN d
    ELSE DrawSamples(DrawSample(d, h, samples[k], tol), h, samples, k + 1, tol)

\* terrain.py:39-85: the hills from h on; the corner hills 0 and 1 are skipped
RECURSIVE DrawHills(_, _, _, _, _, _, _)
DrawHills(d, h, hills, layers, samples, was_done, tol) ==
    IF h >= hills THEN d
    ELSE IF h = 0 \/ h = 1
    THEN DrawHills(d, h + 1, hills, layers, samples, was_done, tol)
    ELSE LET drawn == DrawSamples(d, h, samples[h + 1], 1, tol)
             seen == \E k \in DOMAIN drawn.visited : drawn.visited[k] = h
             marked == IF Len(drawn.inter_points[h + 1]) > 0 /\ ~seen
                       THEN [drawn EXCEPT !.visited = Append(@, h)]
                       ELSE drawn
             measured == IF ~was_done
                         THEN [marked EXCEPT
                                  !.heights = Append(@, layers[h + 1] * scale)]
                         ELSE marked
         IN DrawHills(measured, h + 1, hills, layers, samples, was_done, tol)

\* Each list is cut to its first two points
RECURSIVE Compact_first_two(_, _)
Compact_first_two(points, k) ==
    IF k > Len(points) THEN <<>>
    ELSE LET sub == points[k]
             rest == Compact_first_two(points, k + 1)
         IN IF Len(sub) = 0 THEN rest
            ELSE IF Len(sub) <= 2 THEN <<sub>> \o rest
            ELSE << <<sub[1], sub[2]>> >> \o rest

\* terrain.py:91-92 and terrain_moderator.py:243-244: the hills' non-empty
\* point lists, each cut to its first and last point
RECURSIVE Compact(_, _)
Compact(points, k) ==
    IF k > Len(points) THEN <<>>
    ELSE LET sub == points[k]
             rest == Compact(points, k + 1)
         IN IF Len(sub) = 0 THEN rest
            ELSE IF Len(sub) <= 2 THEN <<sub>> \o rest
            ELSE << <<sub[1], sub[Len(sub)]>> >> \o rest

\* list.index
RECURSIVE IndexOf(_, _, _)
IndexOf(seq, v, k) == IF seq[k + 1] = v THEN k ELSE IndexOf(seq, v, k + 1)

\* terrain_moderator.py:249-261: the entries from position i of result on;
\* the position i itself is looked up in visited, which holds hill ids
RECURSIVE BuildHillsData(_, _, _, _)
BuildHillsData(result, i, seen, hs) ==
    IF i >= Len(result) THEN <<>>
    ELSE LET sublist == result[i + 1]
             rest == BuildHillsData(result, i + 1, seen, hs)
         IN IF Len(sublist) = 2 /\ (\E k \in DOMAIN seen : seen[k] = i)
            THEN << [segment |-> sublist,
                     height |-> hs[IndexOf(seen, i, 0) + 1]] >> \o rest
            ELSE rest

InitTerrainDraw ==
    /\ CENTERS \in SightCenters
    /\ BASE_RADIUS = [k \in DOMAIN CENTERS |-> SightRadius(CENTERS[k])]
    /\ \E first \in {4, 9}, last_ \in {4, 8} :
          LAYERS = [k \in DOMAIN CENTERS |-> SightLayers(CENTERS[k], first, last_)]
    /\ \E pick \in [{6, 10, 14} -> ContourShapes] :
          contour = [k \in DOMAIN CENTERS |->
                       Contours(CENTERS[k],
                                IF OnLine(CENTERS[k]) = 0 THEN 1
                                ELSE pick[OnLine(CENTERS[k])])]
    /\ inter = {}
    /\ inter_points = [k \in DOMAIN CENTERS |-> <<>>]
    /\ visited = <<>>
    /\ heights = <<>>
    /\ done = FALSE
    /\ los = FALSE
    /\ tolerance \in 0 .. MaxTolerance
    /\ hills_data = <<>>
    /\ LossUnused
    /\ CallUnused
    /\ position = <<0, 0, 0>>
    /\ AgentUnused
    /\ FileUnused
    /\ FleetUnused
    /\ last = [op |-> "init"]

\* main.py:87: terrain_moderator, which draws the terrain first
Frame ==
    LET drawn == DrawHills([inter |-> inter, inter_points |-> inter_points,
                            los |-> los, visited |-> visited, heights |-> heights],
                           0, Len(LAYERS), LAYERS, contour, done, tolerance)
    IN /\ inter' = drawn.inter
       /\ inter_points' = drawn.inter_points
       /\ los' = drawn.los
       /\ visited' = drawn.visited
       /\ heights' = drawn.heights
       /\ done' = TRUE
       /\ hills_data' = BuildHillsData(Compact(drawn.inter_points, 1), 0,
                                       drawn.visited, drawn.heights)
       /\ last' = [op |-> "frame"]
       /\ UNCHANGED <<terrainVars, callVars, lossVars, contour, tolerance, agentVars, fileVars, fleetVars>>

\* mainE.py:49-51: the = key
ToleranceUp ==
    /\ tolerance < MaxTolerance
    /\ tolerance' = tolerance + 1
    /\ los' = FALSE
    /\ last' = [op |-> "tolerance", was |-> tolerance]
    /\ UNCHANGED <<terrainVars, callVars, lossVars, contour, inter, inter_points, visited, heights, done,
                   hills_data, agentVars, fileVars, fleetVars>>

\* mainE.py:52-56: the - key
ToleranceDown ==
    /\ tolerance' = IF tolerance - 1 < 0 THEN 0 ELSE tolerance - 1
    /\ los' = FALSE
    /\ last' = [op |-> "tolerance", was |-> tolerance]
    /\ UNCHANGED <<terrainVars, callVars, lossVars, contour, inter, inter_points, visited, heights, done,
                   hills_data, agentVars, fileVars, fleetVars>>

NextTerrain ==
    \/ Frame
    \/ ToleranceUp
    \/ ToleranceDown

SpecTerrain == InitTerrainDraw /\ [][NextTerrain]_vars

\* the visited hills with two anchor points, and the anchor pair of one
TwoAnchorHills ==
    { h \in 0 .. (Len(LAYERS) - 1) :
         /\ \E k \in DOMAIN visited : visited[k] = h
         /\ Len(inter_points[h + 1]) >= 2 }
AnchorPair(h) ==
    <<inter_points[h + 1][1], inter_points[h + 1][Len(inter_points[h + 1])]>>

\* C11: after a frame, every visited hill with two anchor points has exactly
\* one entry of hills_data, holding its anchor pair and its own height
\* LAYERS[h] * scale, and hills_data holds no other entry.
C11_ObstructionOutput ==
    last.op = "frame" =>
        /\ \A h \in TwoAnchorHills :
              Cardinality({ k \in DOMAIN hills_data :
                              hills_data[k].segment = AnchorPair(h) }) = 1
        /\ \A k \in DOMAIN hills_data :
              \E h \in TwoAnchorHills :
                  /\ hills_data[k].segment = AnchorPair(h)
                  /\ hills_data[k].height = LAYERS[h + 1] * scale

\* the samples of hill h (entry h + 1) on its outermost contour that pass
\* the sight line test under tolerance tol, in sampling order, as the pixels
\* draw_terrain records
OuterQualifying(h, tol) ==
    LET Qualifies(s) == s.layer = 0 /\ line_of_sight_validation(s.x, s.y, tol)
        found == SelectSeq(contour[h + 1], Qualifies)
    IN [k \in DOMAIN found |-> <<TruncDiv(found[k].x, 2), TruncDiv(found[k].y, 2)>>]

\* the hills draw_terrain looks at
DrawnHills == {h \in 2 .. (Len(LAYERS) - 1) : TRUE}

\* C25: the first pass after a change of the tolerance starts from nothing:
\* after it every seen point and every anchor point of every hill passes
\* the sight line test under the current tolerance, and no point found
\* under an earlier tolerance remains.
C25_ToleranceReset ==
    [][(last.op = "tolerance" /\ last.was # tolerance /\ last'.op = "frame") =>
          /\ \A q \in inter' : line_of_sight_validation(q[1], q[2], tolerance')
          /\ \A h \in DrawnHills :
                \A k \in DOMAIN inter_points'[h + 1] :
                   \E j \in DOMAIN OuterQualifying(h, tolerance') :
                      OuterQualifying(h, tolerance')[j] = inter_points'[h + 1][k]]_vars

\* a sample of a hill the search looks at passes the test
SomeSampleQualifies ==
    \E h \in DrawnHills : \E k \in DOMAIN contour[h + 1] :
        line_of_sight_validation(contour[h + 1][k].x, contour[h + 1][k].y, tolerance)

\* C26: when a sample qualifies, the pass that follows a pass under the
\* same tolerance, the second pass after an empty seen-set included, leaves
\* the search locked; a pass of a locked search leaves the seen points, the
\* hills' anchor lists, visited and heights as they were.
C26_LockIn ==
    [][/\ (last.op = "frame" /\ last'.op = "frame" /\ SomeSampleQualifies) => los'
       /\ (los /\ last'.op = "frame") =>
             /\ inter' = inter
             /\ inter_points' = inter_points
             /\ visited' = visited
             /\ heights' = heights
             /\ los']_vars

\* a locked search that has seen points of two hills
C26_Witness ==
    /\ last.op = "frame"
    /\ los
    /\ Len(visited) >= 2
    /\ Cardinality(inter) >= 4

\* the anchors of the hills that have one, in the order of the hills, when
\* Ends(points) are the ends of the anchor of a hill with these qualifying
\* points
AnchorsBy(Ends(_), tol) ==
    LET NonEmpty(sub) == Len(sub) > 0
    IN SelectSeq([k \in DOMAIN contour |->
                     IF k - 1 \in DrawnHills
                     THEN IF Len(OuterQualifying(k - 1, tol)) <= 2
                          THEN OuterQualifying(k - 1, tol)
                          ELSE Ends(OuterQualifying(k - 1, tol))
                     ELSE <<>>],
                 NonEmpty)
FirstTwo(points) == SubSeq(points, 1, 2)
FirstAndLast(points) == <<points[1], points[Len(points)]>>

\* C27 as stated: the anchors draw_terrain returns after the first pass are
\* made of the first two samples of each hill's outermost contour that
\* qualify, in sampling order: no sample of an inner contour and no third
\* or later qualifying sample is an end of an anchor.
C27_FirstTwoPoints ==
    [][(~done /\ last'.op = "frame") =>
          Compact(inter_points', 1) = AnchorsBy(FirstTwo, tolerance)]_vars

\* C27, amended: the anchors draw_terrain returns after the first pass are
\* made of the first and the last sample of each hill's outermost contour
\* that qualify, in sampling order; no sample of an inner contour is an end
\* of an anchor.
C27_FirstAndLastPoints ==
    [][(~done /\ last'.op = "frame") =>
          Compact(inter_points', 1) = AnchorsBy(FirstAndLast, tolerance)]_vars

\* a pass in which a hill had three qualifying samples on its outermost
\* contour and another hill a qualifying sample on an inner contour
C27_Witness ==
    /\ last.op = "frame"
    /\ \E h \in DrawnHills :
          /\ Len(inter_points[h + 1]) = 3
          /\ Compact(inter_points, 1)[Len(Compact(inter_points, 1))]
                = <<inter_points[h + 1][1], inter_points[h + 1][3]>>
    /\ \E h \in DrawnHills : \E k \in DOMAIN contour[h + 1] :
          /\ contour[h + 1][k].layer = 1
          /\ <<contour[h + 1][k].x, contour[h + 1][k].y>> \in inter
          /\ Len(inter_points[h + 1]) = 2

----------------------------------------------------------------------------
(* SpecLoss: calculate_segment_loss and calculate_multihop_relay_loss as    *)
(* functions of the end points, the relays (cf.drones), the obstruction     *)
(* list and the frequency                                                   *)

\* relays in one call
MaxRelays == 2

\* a point given in metres
P(x, y, z) == <<x * PosDen, y * PosDen, z * PosDen>>

\* Transmitters and receivers: 50 m apart with the heights 20 m and 50 m
\* either way, coincident, and one coordinate step (less than 1.0) apart
EndPoints ==
    { <<P(0, 0, 20), P(40, 0, 50)>>, <<P(0, 0, 50), P(40, 0, 20)>>,
      <<P(0, 0, 20), P(0, 0, 20)>>,
      <<P(0, 0, 20), <<1, 0, 20 * PosDen>> >> }
RelayPoints == { P(20, 0, 40), P(20, 30, 60) }

\* Obstructions of a given height in metres: a hill half way (its midpoint
\* 20 m from tx, t = 0.4), one around tx itself, one beyond rx, one whose
\* segment is a single point twice, and one whose segment is not a pair
Hill(segment, height) == [segment |-> segment, height |-> height * PosDen]
HalfWay(height) ==
    Hill(<< <<10 * PosDen, -10 * PosDen>>, <<30 * PosDen, 10 * PosDen>> >>, height)
AroundTx(height) == Hill(<< <<-5 * PosDen, 0>>, <<5 * PosDen, 0>> >>, height)
BeyondRx(height) ==
    Hill(<< <<90 * PosDen, -10 * PosDen>>, <<110 * PosDen, 10 * PosDen>> >>, height)
Needle(height) == Hill(<< <<20 * PosDen, 0>>, <<20 * PosDen, 0>> >>, height)
NotAPair(height) == Hill(<< <<20 * PosDen, 0>> >>, height)
ObstructionLists ==
    { <<>>, <<HalfWay(30)>>, <<HalfWay(32)>>, <<HalfWay(40)>>, <<AroundTx(30)>>,
      <<AroundTx(40)>>, <<BeyondRx(40), HalfWay(40)>>, <<Needle(40), NotAPair(40)>>,
      <<HalfWay(40), AroundTx(40), BeyondRx(30)>> }
\* main.py:108 (2.4e9), another band, and an invalid frequency
Frequencies == { 2400, 900, 0 }

SeqsUpTo(S, n) == UNION { [1 .. k -> S] : k \in 0 .. n }

InitLoss ==
    /\ CENTERS = TerrainCenters
    /\ BASE_RADIUS = TerrainRadii
    /\ LAYERS \in TerrainLayers
    /\ LAYERS[2] = 10
    /\ LAYERS[3] = 10
    /\ contour = <<>>
    /\ inter = {}
    /\ inter_points = <<>>
    /\ visited = <<>>
    /\ heights = <<>>
    /\ done = FALSE
    /\ los = FALSE
    /\ tolerance = 0
    /\ loss_result = <<>>
    /\ relay_result = <<>>
    /\ CallUnused
    /\ \E e \in EndPoints : loss_tx = e[1] /\ loss_rx = e[2]
    /\ loss_freq \in Frequencies
    /\ hills_data \in ObstructionLists
    /\ position = <<0, 0, 0>>
    /\ AgentUnused
    /\ FileUnused
    /\ frame_counter = 0
    /\ episode_frame = 0
    /\ total_episodes = 0
    /\ training_flags = <<>>
    /\ episode_rewards = <<>>
    /\ cumulative_rewards = <<>>
    /\ agents = <<>>
    /\ saved_policies = <<>>
    /\ drones \in SeqsUpTo(RelayPoints, MaxRelays)
    /\ towers = <<>>
    /\ per_drone_metrics = <<>>
    /\ last = [op |-> "init"]

SegmentLoss ==
    /\ loss_result' = calculate_segment_loss(loss_tx, loss_rx, hills_data, loss_freq)
    /\ last' = [op |-> "calculate_segment_loss"]
    /\ UNCHANGED <<terrainVars, callVars, contour, inter, inter_points, visited, heights, done,
                   los, tolerance, hills_data, loss_tx, loss_rx, loss_freq, relay_result,
                   agentVars, fileVars, fleetVars>>

MultihopRelayLoss ==
    /\ relay_result' = calculate_multihop_relay_loss(loss_tx, drones, loss_rx,
                                                   hills_data, loss_freq)
    /\ last' = [op |-> "calculate_multihop_relay_loss"]
    /\ UNCHANGED <<terrainVars, callVars, contour, inter, inter_points, visited, heights, done,
                   los, tolerance, hills_data, loss_tx, loss_rx, loss_freq, loss_result,
                   agentVars, fileVars, fleetVars>>

NextLoss ==
    \/ SegmentLoss
    \/ MultihopRelayLoss

SpecLoss == InitLoss /\ [][NextLoss]_vars

\* C12: calculate_multihop_relay_loss with n relays returns the path tx,
\* the relays in their order, rx; n + 1 hops; n + 1 segment losses, the k-th
\* being calculate_segment_loss of the k-th and the next point of the path;
\* and the sum of the segments' totals as total_loss.
C12_MultihopStructure ==
    last.op = "calculate_multihop_relay_loss" =>
        LET path == <<loss_tx>> \o drones \o <<loss_rx>>
            n == Len(drones)
        IN /\ relay_result.relay_path = path
           /\ relay_result.num_hops = n + 1
           /\ Len(relay_result.segment_losses) = n + 1
           /\ \A k \in 1 .. (n + 1) :
                 relay_result.segment_losses[k]
                    = calculate_segment_loss(path[k], path[k + 1], hills_data,
                                             loss_freq)
           /\ relay_result.total_loss = SumTotals(relay_result.segment_losses, 1)

\* two different relays, and an obstruction that costs the first hop something
C12_Witness ==
    /\ last.op = "calculate_multihop_relay_loss"
    /\ Len(drones) = 2
    /\ drones[1] # drones[2]
    /\ relay_result.num_hops = 3
    /\ relay_result.segment_losses[1].diffraction > 0
    /\ relay_result.total_loss > relay_result.segment_losses[1].total

\* C13: without relays calculate_multihop_relay_loss returns one hop and, as
\* total_loss, exactly the total of calculate_segment_loss(tx, rx).
C13_ZeroRelays ==
    (last.op = "calculate_multihop_relay_loss" /\ Len(drones) = 0) =>
        /\ relay_result.num_hops = 1
        /\ relay_result.total_loss
              = calculate_segment_loss(loss_tx, loss_rx, hills_data, loss_freq).total

\* no relay, and an obstruction above the sight line
C13_Witness ==
    /\ last.op = "calculate_multihop_relay_loss"
    /\ Len(drones) = 0
    /\ Len(hills_data) > 0
    /\ relay_result.num_hops = 1
    /\ relay_result.segment_losses[1].diffraction > 0
    /\ relay_result.total_loss = relay_result.segment_losses[1].total

\* The height of the sight line over an obstruction, over TDen, with
\* t = dist(tx_xy, midpoint) / dist(tx, rx) clamped to [0, 1]
SightLineHeight(hill) ==
    LET dist == calculate_distance(loss_tx, loss_rx)
        total_dist == IF dist <= 0 THEN PosDen ELSE dist
        t == Max2(0, Min2((dist_to_mid_doubled(loss_tx, hill.segment) * TDen)
                              \div (2 * total_dist), TDen))
    IN loss_tx[3] * TDen + t * (loss_rx[3] - loss_tx[3])
\* the obstructions that are not at or below the sight line
AboveSightLine(hill) ==
    Len(hill.segment) # 2 \/ hill.height * TDen > SightLineHeight(hill)

\* C14: an obstruction whose height is at most the sight line's height at
\* its midpoint contributes nothing: the diffraction loss returned is that
\* of the list without these obstructions.
C14_BelowSightLine ==
    last.op = "calculate_segment_loss" =>
        loss_result.diffraction
           = rl_multi_hill_diffraction(loss_tx, loss_rx,
                                       SelectSeq(hills_data, AboveSightLine),
                                       loss_freq)

\* C15: the distance calculate_segment_loss reports is at least 1.0.
C15_DistanceFloor ==
    last.op = "calculate_segment_loss" => loss_result.distance >= PosDen

----------------------------------------------------------------------------
(* SpecReward: calculate_reward as a function of its six arguments          *)

RewardArgs ==
    {"rx_power_dbm_direct", "rx_power_dbm_relay", "tx_distance_direct",
     "tx_distance_relay", "drone_height", "avg_terrain_height"}

\* Finite arguments: the powers on and to both sides of the thresholds -50
\* and -80, relay paths shorter and longer than the direct one, heights 50,
\* 30, 25, 20, 10, 5 and 0 above the terrain
FiniteCalls ==
    [rx_power_dbm_direct : {Num(-80), Num(-60)},
     rx_power_dbm_relay : {Num(-90), Num(-80), Num(-50), Num(-40)},
     tx_distance_direct : {Num(1000), Num(2000)},
     tx_distance_relay : {Num(500), Num(1500)},
     drone_height : {Num(30), Num(50)},
     avg_terrain_height : {Num(0), Num(20), Num(25), Num(30)}]

\* what a caller can pass instead of a finite number
NotNumbers == {None, NaN, Inf(1), Inf(-1)}
\* a distance that is not positive
NoDistances == {Num(0), Num(-5)}

\* the terrain of a call that does not look at it
TerrainAside ==
    /\ CENTERS = TerrainCenters
    /\ BASE_RADIUS = TerrainRadii
    /\ LAYERS \in TerrainLayers
    /\ LAYERS[2] = 10
    /\ LAYERS[3] = 10
    /\ DrawUnused
    /\ LossUnused

InitReward ==
    /\ TerrainAside
    /\ position = <<0, 0, 0>>
    /\ AgentUnused
    /\ FileUnused
    /\ FleetUnused
    /\ \E c \in FiniteCalls :
          \/ call = c
          \/ \E a \in RewardArgs, x \in NotNumbers : call = [c EXCEPT ![a] = x]
          \/ \E a \in {"tx_distance_direct", "tx_distance_relay"}, x \in NoDistances :
                call = [c EXCEPT ![a] = x]
    /\ returned = <<>>
    /\ last = [op |-> "init"]

CalculateReward ==
    /\ last.op = "init"
    /\ returned' = calculate_reward(call.rx_power_dbm_direct, call.rx_power_dbm_relay,
                                    call.tx_distance_direct, call.tx_distance_relay,
                                    call.drone_height, call.avg_terrain_height)
    /\ last' = [op |-> "calculate_reward"]
    /\ UNCHANGED <<terrainVars, drawVars, lossVars, call, agentVars, fileVars,
                   fleetVars>>

NextReward == CalculateReward

SpecReward == InitReward /\ [][NextReward]_vars

\* every argument is a finite number and both distances are positive
FiniteCall ==
    /\ \A a \in RewardArgs : call[a].k = "num"
    /\ call.tx_distance_direct.v > 0
    /\ call.tx_distance_relay.v > 0

\* C16: for finite arguments with positive distances the reward is
\* 0.5 * (relay - direct), + 10 if relay > -50, - 5 if relay < -80, + 2 if
\* the relay path is shorter than the direct one, + 3 if the height above
\* the terrain is more than 20, - 1 if it is less than 10, and nothing else.
C16_RewardTerms ==
    (last.op = "calculate_reward" /\ FiniteCall) =>
        LET relay == call.rx_power_dbm_relay.v
            direct == call.rx_power_dbm_direct.v
            margin == call.drone_height.v - call.avg_terrain_height.v
        IN 2 * returned
              = (relay - direct) * QDen
                + (IF relay > -50 THEN 20 * QDen ELSE 0)
                - (IF relay < -80 THEN 10 * QDen ELSE 0)
                + (IF call.tx_distance_relay.v < call.tx_distance_direct.v
                   THEN 4 * QDen ELSE 0)
                + (IF margin > 20 THEN 6 * QDen ELSE 0)
                - (IF margin < 10 THEN 2 * QDen ELSE 0)

\* a call at the edge of the height bonus, with the shorter-path bonus
C16_Witness ==
    /\ last.op = "calculate_reward"
    /\ FiniteCall
    /\ call.drone_height.v - call.avg_terrain_height.v = 20
    /\ call.rx_power_dbm_relay.v = -50
    /\ call.tx_distance_relay.v < call.tx_distance_direct.v
    /\ returned = (call.rx_power_dbm_relay.v - call.rx_power_dbm_direct.v) * (QDen \div 2)
                  + 2 * QDen

\* the default of an argument (rl_agent.py:207-218)
DefaultOf(a) ==
    CASE a \in {"rx_power_dbm_direct", "rx_power_dbm_relay"} -> Num(-80)
      [] a \in {"tx_distance_direct", "tx_distance_relay"} -> Num(1000)
      [] a = "drone_height" -> Num(50)
      [] OTHER -> Num(0)
\* the call with every missing, NaN or infinite argument replaced by its default
Sanitized == [a \in RewardArgs |-> IF NotFinite(call[a]) THEN DefaultOf(a) ELSE call[a]]

\* C17: the reward returned is the reward of the call in which every
\* argument that is None, NaN or +/-Infinity is replaced by its default.
C17_Sanitized ==
    last.op = "calculate_reward" =>
        returned = calculate_reward(Sanitized.rx_power_dbm_direct,
                                    Sanitized.rx_power_dbm_relay,
                                    Sanitized.tx_distance_direct,
                                    Sanitized.tx_distance_relay,
                                    Sanitized.drone_height,
                                    Sanitized.avg_terrain_height)

----------------------------------------------------------------------------
(* SpecGrid: discretize_position and continuous_from_grid on one position   *)

\* (bounds, height_bounds) of a call: those of main.py:40-41, a region that
\* starts below zero, and one whose cells are one unit wide
GridBounds ==
    { <<drone_bounds, drone_height_bounds>>,
      << <<-100, 100, -50, 90>>, <<-10, 30>> >>,
      << <<0, 14, 0, 28>>, <<0, 4>> >> }

\* coordinates below, on, between and above the limits of GridBounds
GridXs == {-300, -100, -1, 0, 13, 14, 50, 99, 100, 400, 749, 750, 751, 2000}
GridYs == {-300, -50, 0, 27, 28, 50, 85, 90, 300, 549, 550, 2000}
GridZs == {-50, -10, 0, 3, 4, 10, 29, 30, 57, 105, 199, 200, 500}

InitGrid ==
    /\ TerrainAside
    /\ position = <<0, 0, 0>>
    /\ AgentUnused
    /\ FileUnused
    /\ FleetUnused
    /\ \E b \in GridBounds, x \in GridXs, y \in GridYs, z \in GridZs :
          call = [pos_3d |-> <<x, y, z>>, bounds |-> b[1], height_bounds |-> b[2]]
    /\ returned = <<>>
    /\ last = [op |-> "init"]

DiscretizePosition ==
    /\ last.op = "init"
    /\ returned' = [grid_pos |-> discretize_position(call.pos_3d, call.bounds,
                                                     call.height_bounds)]
    /\ last' = [op |-> "discretize_position"]
    /\ UNCHANGED <<terrainVars, drawVars, lossVars, call, agentVars, fileVars,
                   fleetVars>>

\* continuous_from_grid on the grid position that discretize_position returned
ContinuousFromGrid ==
    /\ last.op = "discretize_position"
    /\ returned' = [grid_pos |-> returned.grid_pos,
                    point |-> continuous_from_grid(returned.grid_pos, call.bounds,
                                                   call.height_bounds)]
    /\ last' = [op |-> "continuous_from_grid"]
    /\ UNCHANGED <<terrainVars, drawVars, lossVars, call, agentVars, fileVars,
                   fleetVars>>

NextGrid == DiscretizePosition \/ ContinuousFromGrid

SpecGrid == InitGrid /\ [][NextGrid]_vars

\* C18: for every position, inside or outside the bounds, and bounds with
\* max > min on each axis, discretize_position returns (gx, gy, gz) with
\* 0 <= gx <= grid_size - 1, 0 <= gy <= grid_size - 1 and
\* 0 <= gz <= height_levels - 1.
C18_GridRange ==
    (/\ last.op = "discretize_position"
     /\ call.bounds[2] > call.bounds[1]
     /\ call.bounds[4] > call.bounds[3]
     /\ call.height_bounds[2] > call.height_bounds[1]) =>
        /\ returned.grid_pos[1] \in 0 .. (grid_size - 1)
        /\ returned.grid_pos[2] \in 0 .. (grid_size - 1)
        /\ returned.grid_pos[3] \in 0 .. (height_levels - 1)

\* a position below the bounds on x, above them on y and z
C18_Witness ==
    /\ last.op = "discretize_position"
    /\ call.pos_3d[1] < call.bounds[1]
    /\ call.pos_3d[2] > call.bounds[4]
    /\ call.pos_3d[3] > call.height_bounds[2]
    /\ returned.grid_pos = <<0, grid_size - 1, height_levels - 1>>

InsideBounds ==
    /\ call.pos_3d[1] >= call.bounds[1] /\ call.pos_3d[1] <= call.bounds[2]
    /\ call.pos_3d[2] >= call.bounds[3] /\ call.pos_3d[2] <= call.bounds[4]
    /\ call.pos_3d[3] >= call.height_bounds[1] /\ call.pos_3d[3] <= call.height_bounds[2]

Abs(n) == IF n < 0 THEN -n ELSE n

\* C19: for a position p inside the bounds,
\* continuous_from_grid(discretize_position(p)) differs from p by less than
\* (max_x - min_x)/(grid_size - 1) in x, (max_y - min_y)/(grid_size - 1) in y
\* and (max_z - min_z)/(height_levels - 1) in z.
C19_RoundTrip ==
    (last.op = "continuous_from_grid" /\ InsideBounds) =>
        /\ Abs(returned.point[1] - call.pos_3d[1] * GridDen)
              < (call.bounds[2] - call.bounds[1]) * (height_levels - 1)
        /\ Abs(returned.point[2] - call.pos_3d[2] * GridDen)
              < (call.bounds[4] - call.bounds[3]) * (height_levels - 1)
        /\ Abs(returned.point[3] - call.pos_3d[3] * GridDen)
              < (call.height_bounds[2] - call.height_bounds[1]) * (grid_size - 1)

\* a position just under the upper limits: the round trip moves it on every
\* axis, by almost one cell
C19_Witness ==
    /\ last.op = "continuous_from_grid"
    /\ InsideBounds
    /\ call.pos_3d = <<call.bounds[2] - 1, call.bounds[4] - 1, call.height_bounds[2] - 1>>
    /\ returned.grid_pos = <<grid_size - 2, grid_size - 2, height_levels - 2>>
    /\ returned.point[1] < call.pos_3d[1] * GridDen
    /\ returned.point[2] < call.pos_3d[2] * GridDen
    /\ returned.point[3] < call.pos_3d[3] * GridDen

----------------------------------------------------------------------------
(* SpecUpdate: update_q_table on a Q-table that already holds values        *)

\* self.discount_factor * m
Discounted(m) == (m \div discount_factor[2]) * discount_factor[1]

\* the two grid states of a call
UpdateStates == {<<0, 0, 0>>, <<1, 0, 0>>}
\* Q-values of a stored entry: 0.0, 1.0, 0.95, -1.0
UpdateValues == {0, QDen, Discounted(QDen), -QDen}
\* entries whose actions 0 and 1 have been updated before
UpdateEntries == {[NewEntry EXCEPT ![0] = v, ![1] = w] : v, w \in UpdateValues}
\* Q-tables over some of the states
UpdateTables ==
    UNION {[dom -> UpdateEntries] : dom \in SUBSET UpdateStates}
\* what select_action returns, and a numpy integer
UpdateActions ==
    {[type |-> "int", action |-> 0], [type |-> "int", action |-> 1],
     [type |-> "numpy.int64", action |-> 0]}
UpdateRewards == {0, QDen}

InitUpdate ==
    /\ TerrainAside
    /\ position = <<0, 0, 0>>
    /\ q_table \in UpdateTables
    /\ epsilon = 0
    /\ step_count = 0
    /\ episode_count = 0
    /\ learning_history = <<>>
    /\ epsilon_start = 0
    /\ epsilon_min = 0
    /\ epsilon_decay = 0
    /\ FileUnused
    /\ FleetUnused
    /\ \E next_state \in UpdateStates, action \in UpdateActions, reward \in UpdateRewards :
          call = [state |-> <<0, 0, 0>>, action |-> action, reward |-> reward,
                  next_state |-> next_state]
    /\ returned = <<>>
    /\ last = [op |-> "init"]

\* update_q_table: the table is updated and new_q returned, or 0 when the
\* action is not an int
UpdateQTable ==
    /\ last.op = "init"
    /\ q_table' = update_q_table(q_table, call.state, call.action, call.reward,
                                 call.next_state)
    /\ returned' = IF call.action.type = "int"
                   THEN q_table'[call.state][call.action.action] ELSE 0
    /\ last' = [op |-> "update_q_table", q_table |-> q_table]
    /\ UNCHANGED <<terrainVars, drawVars, lossVars, call, position, epsilon, step_count,
                   episode_count, learning_history, epsilon_start, epsilon_min,
                   epsilon_decay, fileVars, fleetVars>>

NextUpdate == UpdateQTable

SpecUpdate == InitUpdate /\ [][NextUpdate]_vars

\* Q(state, action) in table q; a state without an entry has 0.0 everywhere
QValue(q, state, action) == WithState(q, state)[state][action]

\* before the call Q(s, a) equalled gamma * max over a' of Q(s', a')
AtFixedPoint ==
    QValue(last.q_table, call.state, call.action.action)
       = Discounted(MaxValue(WithState(last.q_table, call.next_state)[call.next_state]))

\* C20: update_q_table leaves Q(s, a) unchanged when reward = 0 and Q(s, a)
\* already equals gamma * max over a' of Q(s', a'), for every pair of
\* states s, s', s' = s included.
C20_FixedPoint ==
    (last.op = "update_q_table" /\ call.reward = 0 /\ AtFixedPoint) =>
        QValue(q_table, call.state, call.action.action)
           = QValue(last.q_table, call.state, call.action.action)

\* an update of a state by itself: Q(s, 0) = 0.95 and the maximum is
\* Q(s, 1) = 1.0
C20_Witness ==
    /\ last.op = "update_q_table"
    /\ call.reward = 0
    /\ call.next_state = call.state
    /\ call.action = [type |-> "int", action |-> 0]
    /\ call.state \in DOMAIN last.q_table
    /\ last.q_table[call.state][0] = Discounted(QDen)
    /\ last.q_table[call.state][1] = QDen
    /\ AtFixedPoint
    /\ returned = Discounted(QDen)
    /\ q_table = last.q_table

----------------------------------------------------------------------------
(* SpecConstruct: DroneController(num_drones, bounds, height_bounds) with   *)
(* any bounds, and the update_drone_position calls that follow              *)

\* (min, max) of an axis: max > min, max = min, max < min
AxisX == {<<50, 750>>, <<400, 400>>, <<750, 50>>}
AxisY == {<<50, 550>>, <<300, 300>>, <<550, 50>>}
AxisZ == {<<10, 200>>, <<100, 100>>, <<200, 10>>}

\* max - min is 0 on some axis: the division of rl_agent.py:69-73 raises
ZeroWidth(bounds, height_bounds) ==
    \/ bounds[2] = bounds[1]
    \/ bounds[4] = bounds[3]
    \/ height_bounds[2] = height_bounds[1]

BadBounds(bounds, height_bounds) ==
    \/ bounds[2] <= bounds[1]
    \/ bounds[4] <= bounds[3]
    \/ height_bounds[2] <= height_bounds[1]

\* before DroneController(...) is called; cf.drones[0] is the drone
InitConstruct ==
    /\ TerrainAside
    /\ position \in {<<340, 300, 95>>, <<50, 50, 10>>}
    /\ AgentUnused
    /\ FileUnused
    /\ FleetUnused
    /\ \E x \in AxisX, y \in AxisY, z \in AxisZ :
          call = [bounds |-> <<x[1], x[2], y[1], y[2]>>, height_bounds |-> z]
    /\ returned = [raised |-> "nothing yet"]
    /\ last = [op |-> "init"]

\* DroneController.__init__ (drone_controller.py:19-26) and
\* DroneRLAgent.__init__: the arguments are stored, nothing is tested
Construct ==
    /\ last.op = "init"
    /\ q_table' = <<>>
    /\ epsilon_start' = (3 * EpsDen) \div 10
    /\ epsilon' = (3 * EpsDen) \div 10
    /\ epsilon_min' = EpsDen \div 20
    /\ epsilon_decay' = <<199, 200>>
    /\ step_count' = 0
    /\ episode_count' = 0
    /\ learning_history' = <<>>
    /\ returned' = [raised |-> "no exception"]
    /\ last' = [op |-> "DroneController"]
    /\ UNCHANGED <<terrainVars, drawVars, lossVars, call, position, fileVars,
                   fleetVars>>

\* DroneController.update_drone_position -> DroneRLAgent.step with the
\* bounds stored at construction.  discretize_position divides by max - min
\* (rl_agent.py:69-73): a ZeroDivisionError leaves step before any
\* assignment and is not caught in update_drone_position.
UpdateDronePosition ==
    /\ last.op \in {"DroneController", "update_drone_position"}
    /\ returned.raised = "no exception"
    /\ step_count < MaxSteps
    /\ IF ZeroWidth(call.bounds, call.height_bounds)
       THEN /\ returned' = [raised |-> "ZeroDivisionError"]
            /\ UNCHANGED <<position, q_table, step_count>>
       ELSE LET state == discretize_position(position, call.bounds, call.height_bounds)
                q1 == WithState(q_table, state)
            IN \E sel \in select_action(q1, epsilon, state, TRUE) :
                  LET new_position == apply_action(position, sel.action, call.bounds,
                                                   call.height_bounds)
                      new_state == discretize_position(new_position, call.bounds,
                                                       call.height_bounds)
                      reward == calculate_reward(RelayGains.rx_power_dbm_direct,
                                                 RelayGains.rx_power_dbm_relay,
                                                 RelayGains.tx_distance_direct,
                                                 RelayGains.tx_distance_relay,
                                                 Num(new_position[3]),
                                                 RelayGains.avg_height)
                  IN /\ q_table' = update_q_table(q1, state, sel, reward, new_state)
                     /\ position' = new_position
                     /\ step_count' = step_count + 1
                     /\ returned' = returned
    /\ last' = [op |-> "update_drone_position"]
    /\ UNCHANGED <<terrainVars, drawVars, lossVars, call, epsilon, episode_count,
                   learning_history, epsilon_start, epsilon_min, epsilon_decay,
                   fileVars, fleetVars>>

NextConstruct == Construct \/ UpdateDronePosition

SpecConstruct == InitConstruct /\ [][NextConstruct]_vars

\* C22: bounds with max <= min on some axis are rejected when the
\* controller is constructed, and no later call is the first to raise
\* because of them.
C22_RejectedAtConstruction ==
    /\ (last.op = "DroneController" /\ BadBounds(call.bounds, call.height_bounds))
          => returned.raised # "no exception"
    /\ last.op = "update_drone_position" => returned.raised = "no exception"

----------------------------------------------------------------------------
(* SpecConfig: configT(800, 600), the rejection sampling of the hills.  The *)
(* draws of random.randint are a stream of candidates (x, y, r), read again *)
(* from its start when it ends; each r is in 30..150, x in r..W - r and y   *)
(* in r..H - r.                                                             *)

\* terrain_config.py:8
max_attempts == 1000
\* terrain_config.py:4  random.randint(7, 10)
HillCounts == 7 .. 10

\* Many small hills: more than hills + 5 of them fit.  (60, 60) is too near
\* the corner hill, (165, 100) is 65 from (100, 100), less than 30 + 30 + 10,
\* and (170, 100) exactly 70 from it.
SmallHills ==
    << <<60, 60, 30>>, <<100, 100, 30>>, <<165, 100, 30>>, <<170, 100, 30>>,
       <<200, 100, 30>>, <<300, 100, 30>>, <<400, 100, 30>>, <<500, 100, 30>>,
       <<600, 100, 30>>, <<700, 100, 30>>, <<100, 200, 30>>, <<200, 200, 30>>,
       <<300, 200, 30>>, <<400, 200, 30>>, <<500, 200, 30>>, <<600, 200, 30>>,
       <<700, 200, 30>> >>
\* A large hill in the middle leaves room for two more
LargeHills ==
    << <<400, 300, 150>>, <<150, 450, 150>>, <<650, 160, 40>>, <<150, 450, 40>>,
       <<400, 300, 30>> >>
\* Five hills are placed, and every later draw falls on one of them
SevenHills ==
    << <<400, 300, 100>>, <<150, 450, 60>>, <<650, 150, 60>>, <<150, 200, 40>>,
       <<650, 400, 45>>, <<400, 300, 30>>, <<200, 450, 30>>, <<600, 150, 150>> >>
CandidateStreams == {SmallHills, LargeHills, SevenHills}

\* The margin of line 21 is left out
overlap_no_margin(x, y, r, centers, radii) ==
    \E i \in 1 .. Min2(Len(centers), Len(radii)) :
        (centers[i][1] - x) * (centers[i][1] - x) + (centers[i][2] - y) * (centers[i][2] - y)
            < (r + radii[i]) * (r + radii[i])

\* terrain_config.py:18-23: math.hypot(cx - x, cy - y) < r + cr + 10 for
\* some placed hill
overlap(x, y, r, centers, radii) ==
    \E i \in 1 .. Min2(Len(centers), Len(radii)) :
        (centers[i][1] - x) * (centers[i][1] - x) + (centers[i][2] - y) * (centers[i][2] - y)
            < (r + radii[i] + 10) * (r + radii[i] + 10)

\* the draws of attempt n
Candidate(stream, n) == stream[((n - 1) % Len(stream)) + 1]

\* terrain_config.py:4-10, before the loop
InitConfig ==
    /\ CENTERS = << <<0, 0>>, <<800, 600>> >>
    /\ BASE_RADIUS = <<100, 100>>
    /\ LAYERS = <<>>
    /\ DrawUnused
    /\ LossUnused
    /\ position = <<0, 0, 0>>
    /\ AgentUnused
    /\ FileUnused
    /\ FleetUnused
    /\ \E hills \in HillCounts, stream \in CandidateStreams :
          call = [W |-> W, H |-> H, hills |-> hills, stream |-> stream, attempts |-> 0]
    /\ returned = <<>>
    /\ last = [op |-> "init", placed |-> FALSE]

\* the loop has not ended
Sampling == Len(CENTERS) < call.hills + 5 /\ call.attempts < max_attempts

\* terrain_config.py:11-27: one pass of the loop
Attempt ==
    /\ last.op \in {"init", "attempt"}
    /\ Sampling
    /\ LET c == Candidate(call.stream, call.attempts + 1)
           placed == ~overlap(c[1], c[2], c[3], CENTERS, BASE_RADIUS)
       IN /\ call' = [call EXCEPT !.attempts = @ + 1]
          /\ CENTERS' = IF placed THEN Append(CENTERS, <<c[1], c[2]>>) ELSE CENTERS
          /\ BASE_RADIUS' = IF placed THEN Append(BASE_RADIUS, c[3]) ELSE BASE_RADIUS
          /\ last' = [op |-> "attempt", placed |-> placed]
    /\ UNCHANGED <<LAYERS, returned, drawVars, lossVars, agentVars, fileVars, fleetVars>>

\* terrain_config.py:29-34: the per-hill lists, over range(hills).
\* BASE_RADIUS[h] raises IndexError when fewer than hills centres were
\* placed.  low: every random draw takes its least value, else its greatest.
\* LAYER_GAP[h] is the fraction (BASE_RADIUS[h] - LAYERS[h]) / LAYERS[h],
\* NOISE_FREQ in thousandths.
Lists ==
    /\ last.op \in {"init", "attempt"}
    /\ ~Sampling
    /\ \E low \in BOOLEAN :
          LET hills == call.hills
              layers == [h \in 1 .. hills |->
                            IF low THEN BASE_RADIUS[h] \div 10 ELSE BASE_RADIUS[h] \div 5]
          IN IF Len(BASE_RADIUS) < hills
             THEN /\ returned' = [raised |-> "IndexError"]
                  /\ UNCHANGED LAYERS
             ELSE /\ LAYERS' = layers
                  /\ returned' =
                        [raised |-> "no exception",
                         hills |-> hills,
                         LAYERS |-> layers,
                         CENTERS |-> CENTERS,
                         BASE_RADIUS |-> BASE_RADIUS,
                         LAYER_GAP |-> [h \in 1 .. hills |->
                                           <<BASE_RADIUS[h] - layers[h], layers[h]>>],
                         NOISE_FREQ |-> [h \in 1 .. hills |-> IF low THEN 40 ELSE 70],
                         NOISE_AMP |-> [h \in 1 .. hills |-> IF low THEN 4 ELSE 5],
                         transmitter_tower_height |-> IF low THEN 20 ELSE 70,
                         receiver_tower_height |-> IF low THEN 20 ELSE 70]
    /\ last' = [op |-> "configT", placed |-> FALSE]
    /\ UNCHANGED <<CENTERS, BASE_RADIUS, call, drawVars, lossVars, agentVars, fileVars,
                   fleetVars>>

NextConfig == Attempt \/ Lists

SpecConfig == InitConfig /\ [][NextConfig]_vars

\* C23: terrain generation ends within 1000 attempts and returns a
\* consistent hill set: the number of placed hills is the hill count drawn,
\* which is in 7..10, and centers, base radii, layer counts, layer gaps and
\* noise parameters all have that many entries.
C23_ConsistentHillSet ==
    /\ call.attempts <= max_attempts
    /\ last.op = "configT" =>
          /\ returned.raised = "no exception"
          /\ returned.hills \in 7 .. 10
          /\ Len(returned.CENTERS) = returned.hills
          /\ Len(returned.BASE_RADIUS) = returned.hills
          /\ Len(returned.LAYERS) = returned.hills
          /\ Len(returned.LAYER_GAP) = returned.hills
          /\ Len(returned.NOISE_FREQ) = returned.hills
          /\ Len(returned.NOISE_AMP) = returned.hills

\* C24: at every point of the generation and in its result, two distinct
\* placed hills, the corner hills included, have centres at a distance of
\* at least r1 + r2 + 10.
C24_Separation ==
    \A i, j \in DOMAIN CENTERS :
        i < j =>
           (CENTERS[i][1] - CENTERS[j][1]) * (CENTERS[i][1] - CENTERS[j][1])
           + (CENTERS[i][2] - CENTERS[j][2]) * (CENTERS[i][2] - CENTERS[j][2])
              >= (BASE_RADIUS[i] + BASE_RADIUS[j] + 10) * (BASE_RADIUS[i] + BASE_RADIUS[j] + 10)

\* the result of a generation in which candidates were rejected and one was
\* placed at exactly r1 + r2 + 10 from its neighbour
C24_Witness ==
    /\ last.op = "configT"
    /\ returned.raised = "no exception"
    /\ call.attempts > Len(CENTERS) - 2
    /\ \E i, j \in DOMAIN CENTERS :
          /\ CENTERS[i] = <<100, 100>>
          /\ CENTERS[j] = <<170, 100>>
          /\ BASE_RADIUS[i] + BASE_RADIUS[j] + 10 = 70

====
